---------------------------- MODULE Spec2Model ----------------------------
(***************************************************************************)
(* A model of jma-scraper (scrape.py): the page cache and its monthly      *)
(* tar.gz archives, the date planner get_dates, the station resolver       *)
(* get_master and the page parser get_df_block_date; and of validate.py:   *)
(* validate_column with its export.                                        *)
(*                                                                         *)
(* Conventions.  Dates, months and file names are the strings of the       *)
(* program ('2025-09-01', '2025-09', '14_47412_2025-09-01.txt'); years     *)
(* have four digits.  Station and region names are romanised (the module   *)
(* text is ASCII).                                                         *)
(***************************************************************************)
EXTENDS Integers, Sequences, FiniteSets, TLC

VARIABLES
    \* ---- get_dates (scrape.py 197-208)
    start,          \* strptime(start_date, '%Y-%m-%d'), as <<y, m, d>>
    end,            \* strptime(end_date, '%Y-%m-%d'), as <<y, m, d>>
    i,              \* the loop variable of range((end - start).days + 1)
    dic_dates,      \* the dict, as the sequence of its items in insertion order
    dpc,            \* "loop" | "done" | "idle"
    \* ---- get_master (scrape.py 211-265), on given pages
    precs,          \* soup_precs.find_all('area'): <<[prec_no, prec_name], ...>>
    blocks_pages,   \* prec_no -> the area elements of its block list page
    pi,             \* the position of `for prec in precs`
    set_prec_block, \* the composite keys seen
    df_m,           \* the rows of the master table, in order
    table_en,       \* the module's global dict_block_name_en
    mpc,            \* "loop" | "done" | "raised" | "idle"
    \* ---- get_df_block_date (scrape.py 157-185), on a given page
    query,          \* [prec_no, block_no, year, month, day]
    page,           \* the page got for the query (its description)
    ti,             \* the position of `for table in tables`
    data_rows,      \* the list data_rows
    ppc,            \* "loop" | "done" | "idle"
    \* ---- main (scrape.py 268-293) on the file system
    cache,          \* the files of cache/: name -> content
    tar_gz,         \* the files of tar_gz/: name -> [complete, members]
    site,           \* the remote site: the version of its pages
    runs,           \* the number of runs of main started
    argv,           \* <<start_date, end_date>> of the run
    pc,             \* the position of main
    mi,             \* the position of `for year_month, dates in dic_dates.items()`
    si,             \* the position of `for _, row_m in df_m.iterrows()`
    di,             \* the position of `for date in dates`
    dfs,            \* the list dfs: one entry for each page parsed
    gp,             \* the position of get_page: "" | "call" | "sleep" | "write"
    resp,           \* resp.text in get_page
    ar,             \* compress_impl / extract_impl in progress
    \* ---- what has happened (history, not program state)
    requests,       \* the network requests of the run
    needed,         \* the file names get_page was called with in the run
    archived0,      \* the file names in the archives when the run started
    failed,         \* the request of the run that got a non-success response
    calls,          \* file name -> the last returned get_page call for it
                    \* with no compress of the file since
    last,           \* the get_page call that returned last
    persisted,      \* file name -> the content get_page wrote for it last
    window,         \* the archives extract was called for and compress has
                    \* not returned for since
    archived,       \* file name -> its content in the archive that was
                    \* closed last with it
    log,            \* the calls of the run in their order: extract and
                    \* compress with the archive, get_page with the file
    rt,             \* compress and extract on their own: the batch, the
                    \* cache directory before, the files compressed or the
                    \* archives before and the cache directory after extract
    \* ---- validate_column (validate.py 69-128)
    weather,        \* the rows of weather_japan_org.csv in the window
    master,         \* the rows of weather_japan_master.csv
    output_valid,   \* the option -o
    summary,        \* the counts validate_column prints
    out_csv,        \* the file written by result.to_csv, or NoCsv
    vpc,            \* "start" | "reported" | "done" | "raised" | "idle"
    \* ---- the cache file names (scrape.py 132-154) and the batches
    \* ---- (scrape.py 81-106) of two pages
    targets,        \* the two pages: <<t1, t2>>
    filenames,      \* cache_filename of each, once it is made
    selected,       \* for each, the batches whose compress selects the name
    npc             \* "start" | "named" | "selected" | "idle"

dateVars == <<start, end, i, dic_dates, dpc>>

masterVars == <<precs, blocks_pages, pi, set_prec_block, df_m, mpc, table_en>>

parseVars == <<query, page, ti, data_rows, ppc>>

fileVars == <<cache, tar_gz>>

mainVars == <<site, runs, argv, pc, mi, si, di, dfs, gp, resp, ar>>

histVars == <<requests, needed, archived0, failed, calls, last, persisted, window,
              archived, log>>

validateVars == <<weather, master, output_valid, summary, out_csv, vpc>>

nameVars == <<targets, filenames, selected, npc>>

vars == <<dateVars, masterVars, parseVars, fileVars, mainVars, histVars, rt,
          validateVars, nameVars>>

otherThanDates == <<masterVars, parseVars, fileVars, mainVars, histVars, rt,
                    validateVars, nameVars>>
otherThanMaster == <<dateVars, parseVars, fileVars, mainVars, histVars, rt,
                     validateVars, nameVars>>
otherThanParse == <<dateVars, masterVars, fileVars, mainVars, histVars, rt,
                    validateVars, nameVars>>
otherThanValidate == <<dateVars, masterVars, parseVars, fileVars, mainVars,
                       histVars, rt, nameVars>>
otherThanNames == <<dateVars, masterVars, parseVars, fileVars, mainVars,
                    histVars, rt, validateVars>>
\* what main does not use of the variables above
otherThanMain == <<start, end, i, dpc, blocks_pages, mpc, table_en, parseVars, rt,
                   validateVars, nameVars>>
\* what compress and extract on their own do not use
otherThanArchive == <<dateVars, masterVars, parseVars, histVars, validateVars,
                      nameVars, site, runs, argv, mi, si, di, dfs, gp, resp>>

-----------------------------------------------------------------------------
(* Sequences *)

Last(s) == s[Len(s)]

RECURSIVE Flatten(_)
Flatten(ss) == IF ss = <<>> THEN <<>> ELSE Head(ss) \o Flatten(Tail(ss))

Range(s) == {s[k] : k \in 1..Len(s)}

-----------------------------------------------------------------------------
(* Strings *)

\* s.startswith(prefix)
startswith(s, prefix) ==
    Len(s) >= Len(prefix) /\ SubSeq(s, 1, Len(prefix)) = prefix

\* s.split(sep) for a separator of one character: the pieces of s from
\* position k on, the current piece starting at position from.
RECURSIVE split_at(_, _, _, _)
split_at(s, sep, from, k) ==
    IF k > Len(s) THEN <<SubSeq(s, from, Len(s))>>
    ELSE IF SubSeq(s, k, k) = sep
         THEN <<SubSeq(s, from, k - 1)>> \o split_at(s, sep, k + 1, k + 1)
         ELSE split_at(s, sep, from, k + 1)

split(s, sep) == split_at(s, sep, 1, 1)

digit(c) ==
    CASE c = "0" -> 0 [] c = "1" -> 1 [] c = "2" -> 2 [] c = "3" -> 3
      [] c = "4" -> 4 [] c = "5" -> 5 [] c = "6" -> 6 [] c = "7" -> 7
      [] c = "8" -> 8 [] c = "9" -> 9

\* int(s) for a string of digits
RECURSIVE int(_)
int(s) ==
    IF Len(s) = 0 THEN 0
    ELSE int(SubSeq(s, 1, Len(s) - 1)) * 10 + digit(SubSeq(s, Len(s), Len(s)))

\* f'{n}'
str(n) == ToString(n)

\* f'{n:02}'
str02(n) == IF n < 10 THEN "0" \o ToString(n) ELSE ToString(n)

-----------------------------------------------------------------------------
(* datetime: the proleptic Gregorian ordinal arithmetic behind             *)
(* (end - start).days and start + timedelta(days=i).                       *)

is_leap(year) == year % 4 = 0 /\ (year % 100 # 0 \/ year % 400 = 0)

DAYS_IN_MONTH == <<31, 28, 31, 30, 31, 30, 31, 31, 30, 31, 30, 31>>

DAYS_BEFORE_MONTH == <<0, 31, 59, 90, 120, 151, 181, 212, 243, 273, 304, 334>>

days_before_year(year) ==
    LET y == year - 1 IN y * 365 + (y \div 4) - (y \div 100) + (y \div 400)

days_before_month(year, month) ==
    DAYS_BEFORE_MONTH[month] + (IF month > 2 /\ is_leap(year) THEN 1 ELSE 0)

ymd2ord(date) ==
    days_before_year(date[1]) + days_before_month(date[1], date[2]) + date[3]

ord2ymd(ordinal) ==
    LET n0   == ordinal - 1
        n400 == n0 \div 146097
        r400 == n0 % 146097
        n100 == r400 \div 36524
        r100 == r400 % 36524
        n4   == r100 \div 1461
        r4   == r100 % 1461
        n1   == r4 \div 365
        n    == r4 % 365
        year == n400 * 400 + 1 + n100 * 100 + n4 * 4 + n1
        leapyear == n1 = 3 /\ (n4 # 24 \/ n100 = 3)
        month0 == (n + 50) \div 32
        prec0  == DAYS_BEFORE_MONTH[month0]
                    + (IF month0 > 2 /\ leapyear THEN 1 ELSE 0)
        month  == IF prec0 > n THEN month0 - 1 ELSE month0
        preceding == IF prec0 > n
                     THEN prec0 - (DAYS_IN_MONTH[month]
                                     + (IF month = 2 /\ leapyear THEN 1 ELSE 0))
                     ELSE prec0
    IN  IF n1 = 4 \/ n100 = 4
        THEN <<year - 1, 12, 31>>
        ELSE <<year, month, n - preceding + 1>>

\* (end - start).days
days_between(s, e) == ymd2ord(e) - ymd2ord(s)

\* datetime.strptime(s, '%Y-%m-%d')
strptime(s) ==
    LET li == split(s, "-") IN <<int(li[1]), int(li[2]), int(li[3])>>

\* d.strftime('%Y-%m-%d')
strftime(d) == str(d[1]) \o "-" \o str02(d[2]) \o "-" \o str02(d[3])

\* (start + timedelta(days=k)).strftime('%Y-%m-%d')
date_plus(s, k) == strftime(ord2ymd(ymd2ord(s) + k))

\* date[:7]
year_month_of(date) == SubSeq(date, 1, 7)

-----------------------------------------------------------------------------
(* The curated tables (scrape.py 34-60), romanised. *)

prec_blocks_target ==
    {"Ishikari-chiho::Sapporo", "Aomori-ken::Aomori", "Akita-ken::Akita",
     "Iwate-ken::Morioka", "Miyagi-ken::Sendai", "Yamagata-ken::Yamagata",
     "Fukushima-ken::Fukushima", "Ibaraki-ken::Mito", "Tochigi-ken::Utsunomiya",
     "Gunma-ken::Maebashi", "Saitama-ken::Kumagaya", "Tokyo-to::Tokyo",
     "Chiba-ken::Chiba", "Kanagawa-ken::Yokohama", "Nagano-ken::Nagano",
     "Yamanashi-ken::Kofu", "Shizuoka-ken::Shizuoka", "Aichi-ken::Nagoya",
     "Gifu-ken::Gifu", "Mie-ken::Tsu", "Niigata-ken::Niigata",
     "Toyama-ken::Toyama", "Ishikawa-ken::Kanazawa", "Fukui-ken::Fukui",
     "Shiga-ken::Hikone", "Kyoto-fu::Kyoto", "Osaka-fu::Osaka",
     "Hyogo-ken::Kobe", "Nara-ken::Nara", "Wakayama-ken::Wakayama",
     "Okayama-ken::Okayama", "Hiroshima-ken::Hiroshima", "Shimane-ken::Matsue",
     "Tottori-ken::Tottori", "Tokushima-ken::Tokushima", "Kagawa-ken::Takamatsu",
     "Ehime-ken::Matsuyama", "Kochi-ken::Kochi", "Yamaguchi-ken::Yamaguchi",
     "Fukuoka-ken::Fukuoka", "Oita-ken::Oita", "Nagasaki-ken::Nagasaki",
     "Saga-ken::Saga", "Kumamoto-ken::Kumamoto", "Miyazaki-ken::Miyazaki",
     "Kagoshima-ken::Kagoshima", "Okinawa-ken::Naha"}

dict_block_name_en ==
    "Sapporo" :> "sapporo" @@ "Aomori" :> "aomori" @@ "Akita" :> "akita" @@
    "Morioka" :> "morioka" @@ "Sendai" :> "sendai" @@ "Yamagata" :> "yamagata" @@
    "Fukushima" :> "fukushima" @@ "Mito" :> "mito" @@ "Utsunomiya" :> "utsunomiya" @@
    "Maebashi" :> "maebashi" @@ "Kumagaya" :> "kumagaya" @@ "Tokyo" :> "tokyo" @@
    "Chiba" :> "chiba" @@ "Yokohama" :> "yokohama" @@ "Nagano" :> "nagano" @@
    "Kofu" :> "kofu" @@ "Shizuoka" :> "shizuoka" @@ "Nagoya" :> "nagoya" @@
    "Gifu" :> "gifu" @@ "Tsu" :> "tsu" @@ "Niigata" :> "niigata" @@
    "Toyama" :> "toyama" @@ "Kanazawa" :> "kanazawa" @@ "Fukui" :> "fukui" @@
    "Hikone" :> "hikone" @@ "Kyoto" :> "kyoto" @@ "Osaka" :> "osaka" @@
    "Kobe" :> "kobe" @@ "Nara" :> "nara" @@ "Wakayama" :> "wakayama" @@
    "Okayama" :> "okayama" @@ "Hiroshima" :> "hiroshima" @@ "Matsue" :> "matsue" @@
    "Tottori" :> "tottori" @@ "Tokushima" :> "tokushima" @@ "Takamatsu" :> "takamatsu" @@
    "Matsuyama" :> "matsuyama" @@ "Kochi" :> "kochi" @@ "Yamaguchi" :> "yamaguchi" @@
    "Fukuoka" :> "fukuoka" @@ "Oita" :> "oita" @@ "Nagasaki" :> "nagasaki" @@
    "Saga" :> "saga" @@ "Kumamoto" :> "kumamoto" @@ "Miyazaki" :> "miyazaki" @@
    "Kagoshima" :> "kagoshima" @@ "Naha" :> "naha"

\* prec_name == '南極', the region that is skipped
Nankyoku == "Nankyoku"

-----------------------------------------------------------------------------
(* get_master: the station resolver on given pages. *)

\* The value of block.get('onmouseover') when the attribute is missing.
None == [kind |-> "None"]

\* li after `[x[1:-1] for x in li]`: li[0] the kind flag, li[1] the block
\* number, li[2] the block name, li[4], li[5] and li[6], li[7] the degrees
\* and minutes of latitude and longitude.
Li(kind, block_no, block_name, lat_d, lat_m, lng_d, lng_m) ==
    [kind |-> kind, block_no |-> block_no, block_name |-> block_name,
     lat_d |-> lat_d, lat_m |-> lat_m, lng_d |-> lng_d, lng_m |-> lng_m]

\* float(degrees) + float(minutes) / 60.0, in sixtieths of a degree
degrees60(d, m) == d * 60 + m

\* prec_name + '::' + block_name
prec_block_of(prec_name, block_name) == prec_name \o "::" \o block_name

\* What stands for the KeyError that dict_block_name_en[block_name] raises.
KeyError == "<KeyError>"

\* table.get(block_name, ''), were it in the place of table[block_name]
entry_or_empty(table, block_name) ==
    IF block_name \in DOMAIN table THEN table[block_name] ELSE ""

\* dict_block_name_en[block_name], table being the dict
entry(table, block_name) ==
    IF block_name \in DOMAIN table THEN table[block_name] ELSE KeyError

\* The row appended by `df_m.loc[len(df_m)] = [...]`.
master_row(table, prec, li) ==
    [prec_no       |-> prec.prec_no,
     prec_name     |-> prec.prec_name,
     block_no      |-> li.block_no,
     block_name    |-> li.block_name,
     block_name_en |-> entry(table, li.block_name),
     lat           |-> degrees60(li.lat_d, li.lat_m),
     lng           |-> degrees60(li.lng_d, li.lng_m)]

\* is_observatory with the kind flag ignored
is_observatory_any(li) == TRUE

\* not (li[0] != 's'): an observatory, not AMeDAS
is_observatory(li) == li.kind = "s"

\* is_seen with the set of seen keys ignored
is_seen_never(seen, prec_block) == FALSE

\* prec_block in set_prec_block
is_seen(seen, prec_block) == prec_block \in seen

\* One iteration of `for block in blocks` on acc = [seen, rows, raised],
\* table being dict_block_name_en: the key is added to the set, then the
\* list of the row is made, in which the lookup raises or not.
process_block(table, acc, prec, block) ==
    IF acc.raised \/ block = None THEN acc
    ELSE IF ~is_observatory(block) THEN acc
    ELSE LET prec_block == prec_block_of(prec.prec_name, block.block_name)
         IN  IF prec_block \notin prec_blocks_target THEN acc
             ELSE IF is_seen(acc.seen, prec_block) THEN acc
             ELSE IF entry(table, block.block_name) = KeyError
                  THEN [acc EXCEPT !.seen = @ \cup {prec_block},
                                   !.raised = TRUE]
                  ELSE [acc EXCEPT !.seen = @ \cup {prec_block},
                                   !.rows = Append(@, master_row(table, prec, block))]

\* `for block in blocks` over the whole page
RECURSIVE process_blocks(_, _, _, _)
process_blocks(table, acc, prec, blocks) ==
    IF blocks = <<>> THEN acc
    ELSE process_blocks(table, process_block(table, acc, prec, Head(blocks)), prec,
                        Tail(blocks))

\* One iteration of `for prec in precs` on the page `blocks` of the region.
process_prec(table, acc, prec, blocks) ==
    IF prec.prec_name = Nankyoku THEN acc ELSE process_blocks(table, acc, prec, blocks)

\* How many area elements the region page and a block page hold at most.
MaxAreas == 2
MaxBlocks == 2

\* The area elements of the region page: two regions, the second also
\* under the number of the first, and Nankyoku.
Areas ==
    {[prec_no |-> 14, prec_name |-> "Ishikari-chiho"],
     [prec_no |-> 31, prec_name |-> "Aomori-ken"],
     [prec_no |-> 14, prec_name |-> "Aomori-ken"],
     [prec_no |-> 99, prec_name |-> Nankyoku]}

\* Sapporo and Aomori as observatories under the same number, Sapporo a
\* second time under another number, an AMeDAS station of the same name,
\* an element with no onmouseover.
BlockEntries ==
    {Li("s", 47412, "Sapporo", 43, 4, 141, 20),
     Li("s", 47999, "Sapporo", 43, 9, 141, 29),
     Li("a", 14163, "Sapporo", 43, 3, 141, 19),
     Li("s", 47412, "Aomori", 40, 49, 140, 46),
     None}

PrecNos == {a.prec_no : a \in Areas}

SeqsUpTo(S, n) == UNION {[1..k -> S] : k \in 0..n}

\* blocks_pages[p] is <<>> before the page of p is got and <<page>> after.
NotFetched == <<>>

MasterIdle ==
    /\ precs = <<>> /\ blocks_pages = [p \in PrecNos |-> NotFetched] /\ pi = 1
    /\ set_prec_block = {} /\ df_m = <<>> /\ mpc = "idle"
    /\ table_en = dict_block_name_en

MasterInit ==
    /\ precs \in SeqsUpTo(Areas, MaxAreas)
    /\ blocks_pages = [p \in PrecNos |-> NotFetched]
    /\ pi = 1
    /\ set_prec_block = {}
    /\ df_m = <<>>
    /\ mpc = "loop"
    /\ table_en = dict_block_name_en

\* dict_block_name_en with the entry of block_name deleted.
without(table, block_name) ==
    [n \in DOMAIN table \ {block_name} |-> table[n]]

\* The region page as the site has it, each number once.
AreasOfSite == {a \in Areas : ~(a.prec_no = 14 /\ a.prec_name = "Aomori-ken")}

\* get_master is called with dict_block_name_en as the module defines it,
\* or after the entry of a station of prec_blocks_target was deleted from
\* it.
MasterTableInit ==
    /\ precs \in SeqsUpTo(AreasOfSite, MaxAreas)
    /\ blocks_pages = [p \in PrecNos |-> NotFetched]
    /\ pi = 1
    /\ set_prec_block = {}
    /\ df_m = <<>>
    /\ mpc = "loop"
    /\ table_en \in {dict_block_name_en, without(dict_block_name_en, "Aomori")}

\* One iteration of `for prec in precs`: the region's block list page is
\* got (the same page for the same prec_no) and its elements are processed.
get_master_prec ==
    /\ mpc = "loop"
    /\ pi <= Len(precs)
    /\ LET prec == precs[pi] IN
       \E blocks \in SeqsUpTo(BlockEntries, MaxBlocks) :
         /\ prec.prec_name # Nankyoku /\ blocks_pages[prec.prec_no] # NotFetched
                => blocks = blocks_pages[prec.prec_no][1]
         /\ prec.prec_name = Nankyoku => blocks = <<>>
         /\ blocks_pages' = IF prec.prec_name = Nankyoku THEN blocks_pages
                            ELSE [blocks_pages EXCEPT ![prec.prec_no] = <<blocks>>]
         /\ LET acc == process_prec(table_en,
                                    [seen |-> set_prec_block, rows |-> df_m,
                                     raised |-> FALSE], prec, blocks)
            IN  /\ set_prec_block' = acc.seen
                /\ df_m' = acc.rows
                /\ mpc' = IF acc.raised THEN "raised" ELSE "loop"
    /\ pi' = pi + 1
    /\ UNCHANGED <<precs, table_en>>
    /\ UNCHANGED otherThanMaster

\* df_m.to_csv(out_file_master, ...) and `return df_m`
get_master_return ==
    /\ mpc = "loop"
    /\ pi > Len(precs)
    /\ mpc' = "done"
    /\ UNCHANGED <<precs, blocks_pages, pi, set_prec_block, df_m, table_en>>
    /\ UNCHANGED otherThanMaster

MasterNext == get_master_prec \/ get_master_return

(* What get_master is compared with: the station entries in the order they *)
(* are met, region page by region page.                                    *)

PageOf(prec) ==
    IF blocks_pages[prec.prec_no] = NotFetched THEN <<>>
    ELSE blocks_pages[prec.prec_no][1]

Occurrences ==
    Flatten([k \in 1..Len(precs) |->
        IF precs[k].prec_name = Nankyoku THEN <<>>
        ELSE [n \in 1..Len(PageOf(precs[k])) |->
                [prec |-> precs[k], li |-> PageOf(precs[k])[n]]]])

OccKey(o) == o.prec.prec_name \o "::" \o o.li.block_name

\* An entry with the observatory kind flag whose composite key is curated.
Qualifies(o) ==
    /\ o.li # None
    /\ o.li.kind = "s"
    /\ OccKey(o) \in prec_blocks_target

\* The positions in occ of the first qualifying occurrence of each composite
\* key.
FirstOccurrencesOf(occ) ==
    {k \in 1..Len(occ) :
        /\ Qualifies(occ[k])
        /\ \A j \in 1..(k - 1) :
              Qualifies(occ[j]) => OccKey(occ[j]) # OccKey(occ[k])}

FirstOccurrences == FirstOccurrencesOf(Occurrences)

\* The k-th smallest element of a set of numbers.
RECURSIVE Nth(_, _)
Nth(K, n) ==
    LET m == CHOOSE x \in K : \A y \in K : x <= y
    IN  IF n = 1 THEN m ELSE Nth(K \ {m}, n - 1)

RowIsFrom(row, o) ==
    /\ row.prec_no = o.prec.prec_no
    /\ row.prec_name = o.prec.prec_name
    /\ row.block_no = o.li.block_no
    /\ row.block_name = o.li.block_name
    /\ row.lat = o.li.lat_d * 60 + o.li.lat_m
    /\ row.lng = o.li.lng_d * 60 + o.li.lng_m

\* C6: the master table returned by get_master has exactly one row per
\* composite key region_name::station_name that is curated and occurs with
\* the observatory kind flag; the row is taken from the first such occurrence
\* and the rows are in first-encountered order (so AMeDAS-only entries,
\* entries that are not curated and later entries of a seen key give no row).
C6_MasterIsFirstOccurrences ==
    mpc = "done" =>
        LET occ == Occurrences
            first == FirstOccurrencesOf(occ)
        IN  /\ Len(df_m) = Cardinality(first)
            /\ \A n \in 1..Len(df_m) : RowIsFrom(df_m[n], occ[Nth(first, n)])

\* A returned master table with a row, met together with an AMeDAS-only
\* entry and with a later entry of an already seen composite key.
C6_Witness ==
    /\ mpc = "done"
    /\ Len(df_m) >= 1
    /\ \E k \in 1..Len(Occurrences) :
          Occurrences[k].li # None /\ Occurrences[k].li.kind = "a"
    /\ \E k \in 1..Len(Occurrences) :
          Qualifies(Occurrences[k]) /\ k \notin FirstOccurrences

-----------------------------------------------------------------------------
(* get_dates *)

\* The longest range (end - start).days the planner is run on.
MaxSpan == 31

\* The dates the planner's arguments are drawn from: month ends, a leap and
\* a common February, a year end, a century year that is not a leap year,
\* and the spec's 2025-09-01..2025-09-02 scenario.
DateInputs ==
    {"2024-01-31", "2024-02-28", "2024-02-29", "2024-03-01",
     "2024-12-30", "2024-12-31", "2025-01-01", "2025-01-31",
     "2025-02-27", "2025-02-28", "2025-03-01", "2025-03-02",
     "2025-09-01", "2025-09-02", "2025-09-30", "2025-10-01",
     "2100-02-28", "2100-03-01", "2000-02-28", "2000-02-29",
     "2000-03-01"}

\* dic_dates after the append, were a new key put in front of the others
dict_append_front(dic, year_month, date) ==
    IF \E k \in 1..Len(dic) : dic[k].key = year_month
    THEN [k \in 1..Len(dic) |->
            IF dic[k].key = year_month
            THEN [dic[k] EXCEPT !.dates = Append(@, date)]
            ELSE dic[k]]
    ELSE <<[key |-> year_month, dates |-> <<date>>]>> \o dic

\* dic_dates after `dic_dates[year_month].append(date)`, creating the key
\* at the end of the dict when it is not in it.
dict_append(dic, year_month, date) ==
    IF \E k \in 1..Len(dic) : dic[k].key = year_month
    THEN [k \in 1..Len(dic) |->
            IF dic[k].key = year_month
            THEN [dic[k] EXCEPT !.dates = Append(@, date)]
            ELSE dic[k]]
    ELSE Append(dic, [key |-> year_month, dates |-> <<date>>])

DatesIdle ==
    /\ start = <<1, 1, 1>> /\ end = <<1, 1, 1>> /\ i = 0
    /\ dic_dates = <<>> /\ dpc = "idle"

DatesInit ==
    /\ \E start_date, end_date \in DateInputs :
          /\ start = strptime(start_date)
          /\ end = strptime(end_date)
    /\ days_between(start, end) <= MaxSpan
    /\ i = 0
    /\ dic_dates = <<>>
    /\ dpc = "loop"

\* len(range((end - start).days)): the range without the end date.
range_len_exclusive(s, e) == days_between(s, e)

\* len(range((end - start).days + 1)), negative when the range is empty.
range_len(s, e) == days_between(s, e) + 1

\* One iteration of `for i in range((end - start).days + 1)`.
get_dates_step ==
    /\ dpc = "loop"
    /\ i < range_len(start, end)
    /\ LET date == date_plus(start, i)
       IN  dic_dates' = dict_append(dic_dates, year_month_of(date), date)
    /\ i' = i + 1
    /\ UNCHANGED <<start, end, dpc>>
    /\ UNCHANGED otherThanDates

\* `return dic_dates`
get_dates_return ==
    /\ dpc = "loop"
    /\ ~(i < range_len(start, end))
    /\ dpc' = "done"
    /\ UNCHANGED <<start, end, i, dic_dates>>
    /\ UNCHANGED otherThanDates

DatesNext == get_dates_step \/ get_dates_return

(* The calendar, stated without ordinals: what the plan is compared with. *)

CalendarDaysIn(y, m) ==
    CASE m \in {4, 6, 9, 11} -> 30
      [] m = 2 -> IF (y % 4 = 0 /\ y % 100 # 0) \/ y % 400 = 0 THEN 29 ELSE 28
      [] OTHER -> 31

CalendarNextDay(date) ==
    LET y == date[1]  m == date[2]  d == date[3]
    IN  IF d < CalendarDaysIn(y, m) THEN <<y, m, d + 1>>
        ELSE IF m < 12 THEN <<y, m + 1, 1>>
        ELSE <<y + 1, 1, 1>>

DateLE(a, b) ==
    \/ a[1] < b[1]
    \/ a[1] = b[1] /\ a[2] < b[2]
    \/ a[1] = b[1] /\ a[2] = b[2] /\ a[3] <= b[3]

\* The inclusive day-by-day sequence from a to b (a <= b).
RECURSIVE CalendarDays(_, _)
CalendarDays(a, b) ==
    IF a = b THEN <<a>> ELSE <<a>> \o CalendarDays(CalendarNextDay(a), b)

BucketDates(dic) == Flatten([k \in 1..Len(dic) |-> dic[k].dates])

\* 'YYYY-MM-DD' and 'YYYY-MM' written out for a date of the calendar
CalendarText(d) ==
    LET two(n) == IF n < 10 THEN "0" \o ToString(n) ELSE ToString(n)
    IN  ToString(d[1]) \o "-" \o two(d[2]) \o "-" \o two(d[3])

CalendarMonthText(d) ==
    LET two(n) == IF n < 10 THEN "0" \o ToString(n) ELSE ToString(n)
    IN  ToString(d[1]) \o "-" \o two(d[2])

\* C5: for start <= end the month buckets returned by get_dates, concatenated
\* in bucket order, are exactly the inclusive day-by-day sequence from start
\* to end, every date lies in the bucket of its own YYYY-MM and no month has
\* two buckets; for start > end the returned mapping is empty.
C5_PlanIsInclusiveRange ==
    dpc = "done" =>
        IF DateLE(start, end)
        THEN /\ LET days == CalendarDays(start, end)
                IN  BucketDates(dic_dates)
                        = [n \in 1..Len(days) |-> CalendarText(days[n])]
             /\ \A k \in 1..Len(dic_dates) :
                    /\ dic_dates[k].dates # <<>>
                    /\ \A n \in 1..Len(dic_dates[k].dates) :
                          dic_dates[k].key
                            = CalendarMonthText(strptime(dic_dates[k].dates[n]))
             /\ \A j, k \in 1..Len(dic_dates) :
                    dic_dates[j].key = dic_dates[k].key => j = k
        ELSE dic_dates = <<>>

\* A returned plan of three month buckets (a range across two month ends).
C5_Witness == dpc = "done" /\ Len(dic_dates) = 3

-----------------------------------------------------------------------------
(* The page of a station and day: tables of rows of cells.  A row is      *)
(* [cells, inner]: its td cells and the tables that sit inside its last    *)
(* cell.  BeautifulSoup's find_all returns every descendant with the tag,  *)
(* in document order.                                                      *)

Cell(text, alt) == [text |-> text, alt |-> alt]

Row(cells, inner) == [cells |-> cells, inner |-> inner]

RECURSIVE find_all_table(_), find_all_tr(_), find_all_td(_)

\* find_all('table') below a sequence of tables: each table, then the
\* tables inside it
find_all_table(tables) ==
    Flatten([t \in 1..Len(tables) |->
        <<tables[t]>> \o
        Flatten([r \in 1..Len(tables[t].rows) |->
            find_all_table(tables[t].rows[r].inner)])])

\* table.find_all('tr'): the rows of the table and of the tables inside it
find_all_tr(table) ==
    Flatten([r \in 1..Len(table.rows) |->
        <<table.rows[r]>> \o
        Flatten([t \in 1..Len(table.rows[r].inner) |->
            find_all_tr(table.rows[r].inner[t])])])

\* row.find_all('td'): the cells of the row and of the tables inside it
find_all_td(row) ==
    row.cells \o
    Flatten([t \in 1..Len(row.inner) |->
        Flatten([r \in 1..Len(row.inner[t].rows) |->
            find_all_td(row.inner[t].rows[r])])])

\* len(rows) != 26 and len(cols) != 17
ROWS == 26
COLS == 17

\* f'{year}{month:02}{day:02}', the eight digits as a number
yyyymmdd(year, month, day) == year * 10000 + month * 100 + day

\* The dict appended for a row with the cells cols (cols[k] is cols[k + 1]
\* here); '' stands for a cell 14 without img.
observation(q, cols) ==
    [prec_no  |-> q.prec_no,
     block_no |-> q.block_no,
     date     |-> yyyymmdd(q.year, q.month, q.day),
     hour     |-> cols[1].text,
     precip   |-> cols[4].text,
     temp     |-> cols[5].text,
     humid    |-> cols[8].text,
     wind     |-> cols[9].text,
     snowfall |-> cols[13].text,
     snow     |-> cols[14].text,
     weather  |-> cols[15].alt]

\* is_candidate_table with the row count ignored
is_candidate_table_any(rows) == TRUE

\* not (len(rows) != 26)
is_candidate_table(rows) == Len(rows) = ROWS

\* is_data_row with the cell count ignored (rows of at least 15 cells)
is_data_row_wide(cols) == Len(cols) >= 15

\* not (len(cols) != 17)
is_data_row(cols) == Len(cols) = COLS

\* `for row in rows` on the rows left, appending to the list out
RECURSIVE parse_rows(_, _, _)
parse_rows(out, q, rows) ==
    IF rows = <<>> THEN out
    ELSE LET cols == find_all_td(Head(rows))
         IN  parse_rows(IF is_data_row(cols) THEN Append(out, observation(q, cols))
                        ELSE out,
                        q, Tail(rows))

\* One iteration of `for table in tables`.
parse_table(out, q, table) ==
    LET rows == find_all_tr(table)
    IN  IF is_candidate_table(rows) THEN parse_rows(out, q, rows) ELSE out

(* The pages get_df_block_date is run on. *)

\* A row of w cells labelled h: cell k holds the text <<h, k>>, and cell 14
\* an img with an alt text unless the label is odd.
PlainRow(h, w) ==
    Row([k \in 1..w |-> Cell(<<h, k - 1>>, IF k = 15 /\ h % 2 = 0 THEN "hare" ELSE "")],
        <<>>)

\* A table of hdr rows without td (th only), then n rows of w cells labelled
\* 1..n, the last `short` of them one cell shorter.
PlainTable(hdr, n, w, short) ==
    [rows |-> [r \in 1..(hdr + n) |->
        IF r <= hdr THEN Row(<<>>, <<>>)
        ELSE IF r > hdr + n - short THEN PlainRow(r - hdr, w - 1)
        ELSE PlainRow(r - hdr, w)]]

\* A layout table: one row of one cell that holds the table inner.
WrapTable(inner) == [rows |-> <<Row(<<Cell(<<0, 0>>, "")>>, <<inner>>)>>]

\* The table t with a table of one row of k cells put into the last cell of
\* its last row.
WithInnerTable(t, k) ==
    [t EXCEPT !.rows[Len(t.rows)].inner =
        <<[rows |-> <<Row([c \in 1..k |-> Cell(<<99, c - 1>>, "")], <<>>)>>]>>]

\* The descriptions of the tables a page is made of.
TableKinds ==
    {"hourly",      \* 2 header rows and 24 rows of 17 cells
     "all17",       \* 26 rows of 17 cells
     "rows25",      \* 1 header row and 24 rows of 17 cells
     "rows27",      \* 3 header rows and 24 rows of 17 cells
     "cells16",     \* 2 header rows and 24 rows of 16 cells
     "mixed",       \* 2 header rows, 22 rows of 17 cells and 2 of 16
     "wrapped",     \* the hourly table inside a layout table
     "inner"}       \* 2 header rows, 23 rows of 17 cells, the last holding
                    \* a table of one row of one cell

TableOf(kind) ==
    CASE kind = "hourly"  -> PlainTable(2, ROWS - 2, COLS, 0)
      [] kind = "all17"   -> PlainTable(0, ROWS, COLS, 0)
      [] kind = "rows25"  -> PlainTable(1, ROWS - 2, COLS, 0)
      [] kind = "rows27"  -> PlainTable(3, ROWS - 2, COLS, 0)
      [] kind = "cells16" -> PlainTable(2, ROWS - 2, COLS - 1, 0)
      [] kind = "mixed"   -> PlainTable(2, ROWS - 2, COLS, 2)
      [] kind = "wrapped" -> WrapTable(PlainTable(2, ROWS - 2, COLS, 0))
      [] kind = "inner"   -> WithInnerTable(PlainTable(2, ROWS - 3, COLS, 0), 1)

\* The top-level tables of the page described by the sequence of kinds.
PageTables(desc) == [t \in 1..Len(desc) |-> TableOf(desc[t])]

\* How many top-level tables a page holds at most.
MaxTables == 2

Queries ==
    {[prec_no |-> 14, block_no |-> 47412, year |-> 2025, month |-> 9, day |-> 1],
     [prec_no |-> 44, block_no |-> 47662, year |-> 2024, month |-> 1, day |-> 1]}

ParseIdle ==
    /\ query = [prec_no |-> 0, block_no |-> 0, year |-> 0, month |-> 0, day |-> 0]
    /\ page = <<>> /\ ti = 1 /\ data_rows = <<>> /\ ppc = "idle"

ParseInit ==
    /\ query \in Queries
    /\ page \in SeqsUpTo(TableKinds, MaxTables)
    /\ ti = 1
    /\ data_rows = <<>>
    /\ ppc = "loop"

\* tables = soup.find_all('table')
tables_of(desc) == find_all_table(PageTables(desc))

\* One iteration of `for table in tables`.
get_df_table ==
    /\ ppc = "loop"
    /\ LET tables == tables_of(page)
       IN  /\ ti <= Len(tables)
           /\ data_rows' = parse_table(data_rows, query, tables[ti])
    /\ ti' = ti + 1
    /\ UNCHANGED <<query, page, ppc>>
    /\ UNCHANGED otherThanParse

\* `return pd.DataFrame(data_rows)`
get_df_return ==
    /\ ppc = "loop"
    /\ ti > Len(tables_of(page))
    /\ ppc' = "done"
    /\ UNCHANGED <<query, page, ti, data_rows>>
    /\ UNCHANGED otherThanParse

ParseNext == get_df_table \/ get_df_return

(* What the parser's result is compared with. *)

\* The number of rows, among the tr rows given, of exactly n td cells.
RowsWithCells(rows, n) ==
    Cardinality({r \in 1..Len(rows) : Len(find_all_td(rows[r])) = n})

\* For each table of the page in document order, <<the number of its tr
\* rows, the number of them with exactly 17 td cells, the number of them
\* with td cells but not 17>>.
RECURSIVE TableCounts(_)
TableCounts(tables) ==
    IF tables = <<>> THEN <<>>
    ELSE LET rows == find_all_tr(Head(tables))
             n17  == RowsWithCells(rows, 17)
             n0   == RowsWithCells(rows, 0)
         IN  <<[tr |-> Len(rows), td17 |-> n17, other |-> Len(rows) - n17 - n0]>>
                \o TableCounts(Tail(tables))

RECURSIVE SumSeq(_)
SumSeq(ns) == IF ns = <<>> THEN 0 ELSE Head(ns) + SumSeq(Tail(ns))

CarriesQuery(row) ==
    /\ row.prec_no = query.prec_no
    /\ row.block_no = query.block_no
    /\ row.date = query.year * 10000 + query.month * 100 + query.day

\* C7 as claimed: a page with a table of exactly 26 rows in which every row
\* that has td cells has exactly 17 of them gives exactly 24 observations,
\* each with the queried region, station and date; a page with no table of
\* exactly 26 rows gives none.
C7_Claimed ==
    ppc = "done" =>
        LET counts == TableCounts(tables_of(page)) IN
        /\ (\E t \in 1..Len(counts) : counts[t].tr = 26 /\ counts[t].other = 0)
                => Len(data_rows) = 24 /\ \A n \in 1..24 : CarriesQuery(data_rows[n])
        /\ (\A t \in 1..Len(counts) : counts[t].tr # 26) => data_rows = <<>>

\* C7, amended: the result has one observation for every row of exactly 17
\* td cells in every table of exactly 26 tr rows (rows and cells of inner
\* tables counted with the table they are in), each with the queried region,
\* station and date; these are exactly 24 when the page has exactly one table
\* of 26 rows and exactly 24 of its rows have 17 cells; a page with no table
\* of exactly 26 rows gives an empty result.
C7_OneObservationPerQualifyingRow ==
    ppc = "done" =>
        LET counts == TableCounts(tables_of(page))
            cand   == {t \in 1..Len(counts) : counts[t].tr = 26}
        IN
        /\ Len(data_rows)
             = SumSeq([t \in 1..Len(counts) |->
                          IF t \in cand THEN counts[t].td17 ELSE 0])
        /\ \A n \in 1..Len(data_rows) : CarriesQuery(data_rows[n])
        /\ (\E t \in cand : cand = {t} /\ counts[t].td17 = 24)
                => Len(data_rows) = 24
        /\ cand = {} => data_rows = <<>>

\* The parse of a page with the hourly table and a table of 25 rows has
\* returned 24 observations.
C7_Witness ==
    /\ ppc = "done"
    /\ page = <<"rows25", "hourly">>
    /\ Len(data_rows) = 24

-----------------------------------------------------------------------------
(* The cache directory and the archives. *)

EmptyDir == [n \in {} |-> 0]

Put(dir, name, content) ==
    [n \in DOMAIN dir \cup {name} |-> IF n = name THEN content ELSE dir[n]]

Unlink(dir, name) == [n \in DOMAIN dir \ {name} |-> dir[n]]

\* f'{prec_no}_{block_no}_{year}-{month:02}-{day:02}.txt'
block_date_filename(prec_no, block_no, year, month, day) ==
    str(prec_no) \o "_" \o str(block_no) \o "_"
        \o str(year) \o "-" \o str02(month) \o "-" \o str02(day) \o ".txt"

\* f'prefecture_{prec_no}.txt'
blocks_filename(prec_no) == "prefecture_" \o str(prec_no) \o ".txt"

\* 'prefectures.txt'
precs_filename == "prefectures.txt"

\* compress_month.is_target, were only the year compared
is_target_by_year(filename, year_month) ==
    LET li == split(filename, "_")
    IN  IF Len(li) # 3 THEN FALSE ELSE startswith(li[3], SubSeq(year_month, 1, 4))

\* compress_month.is_target
is_target(filename, year_month) ==
    LET li == split(filename, "_")
    IN  IF Len(li) # 3 THEN FALSE ELSE startswith(li[3], year_month)

\* f.name.startswith('prefecture')
is_precs_target(filename) == startswith(filename, "prefecture")

\* tar_gz_path / f'{year_month}.tar.gz'
month_tar_gz(year_month) == year_month \o ".tar.gz"

\* tar_gz_path / 'prefectures.tar.gz'
precs_tar_gz == "prefectures.tar.gz"

\* No compress followed by an extract on their own.
NoRt == [batch |-> "", before |-> EmptyDir, compressed |-> {},
         remove_cache |-> TRUE]

\* The files compress_precs and compress_month(year_month) select:
\* [f.name for f in cache_path.iterdir() if ...]
precs_cache_files == {f \in DOMAIN cache : is_precs_target(f)}

\* compress_month's cache_files, were only the files of the pages of
\* this run selected
month_cache_files_of_run(year_month) ==
    {f \in DOMAIN cache : is_target(f, year_month) /\ f \in needed}

month_cache_files(year_month) == {f \in DOMAIN cache : is_target(f, year_month)}

\* compress_impl and extract_impl at work.  cache_files is a list in the
\* order of iterdir, which is any order; both loops of compress_impl go
\* through it, and the second starts when the first has ended, so what is
\* left to do is kept as a set.  For extract_impl files holds the names
\* written so far.
NoAr == [op |-> "", file |-> "", phase |-> "", todo |-> {}, files |-> {},
         remove_cache |-> TRUE]

\* compress_impl up to tarfile.open(tar_gz_file, 'w:gz'): the archive file
\* is created, or truncated when it exists.
compress_open(tar_gz_file, cache_files, remove_cache) ==
    /\ tar_gz' = Put(tar_gz, tar_gz_file, [complete |-> FALSE, members |-> EmptyDir])
    /\ ar' = [op |-> "compress", file |-> tar_gz_file, phase |-> "add",
              todo |-> cache_files, files |-> cache_files,
              remove_cache |-> remove_cache]
    /\ UNCHANGED cache

\* tar.add for the next file, were the file moved into the archive: it is
\* unlinked as soon as it is added.
compress_add_moving ==
    /\ ar.op = "compress" /\ ar.phase = "add"
    /\ \E filename \in ar.todo :
         /\ tar_gz' = [tar_gz EXCEPT ![ar.file].members = Put(@, filename, cache[filename])]
         /\ cache' = Unlink(cache, filename)
         /\ ar' = [ar EXCEPT !.todo = @ \ {filename}]

\* tar.add(cache_path / filename, arcname=filename) for the next file
compress_add ==
    /\ ar.op = "compress" /\ ar.phase = "add"
    /\ \E filename \in ar.todo :
         /\ tar_gz' = [tar_gz EXCEPT ![ar.file].members = Put(@, filename, cache[filename])]
         /\ ar' = [ar EXCEPT !.todo = @ \ {filename}]
    /\ UNCHANGED cache

\* The end of the with block, were remove_cache not looked at: no file is
\* left to unlink.
compress_close_keeping ==
    /\ ar.op = "compress" /\ ar.phase = "add" /\ ar.todo = {}
    /\ tar_gz' = [tar_gz EXCEPT ![ar.file].complete = TRUE]
    /\ ar' = [ar EXCEPT !.phase = "unlink", !.todo = {}]
    /\ UNCHANGED cache

\* The end of the with block: the archive is closed, complete.
compress_close ==
    /\ ar.op = "compress" /\ ar.phase = "add" /\ ar.todo = {}
    /\ tar_gz' = [tar_gz EXCEPT ![ar.file].complete = TRUE]
    /\ ar' = [ar EXCEPT !.phase = "unlink",
                        !.todo = IF ar.remove_cache THEN ar.files ELSE {}]
    /\ UNCHANGED cache

\* (cache_path / filename).unlink() for the next file
compress_unlink ==
    /\ ar.op = "compress" /\ ar.phase = "unlink"
    /\ \E filename \in ar.todo :
         /\ cache' = Unlink(cache, filename)
         /\ ar' = [ar EXCEPT !.todo = @ \ {filename}]
    /\ UNCHANGED tar_gz

\* extract_impl, were extractall left out: no member is to be written.
extract_open_nothing(tar_gz_file) ==
    /\ ar' = [op |-> "extract", file |-> tar_gz_file, phase |-> "extractall",
              todo |-> {}, files |-> {}, remove_cache |-> TRUE]
    /\ UNCHANGED <<cache, tar_gz>>

\* extract_impl up to tarfile.open(tar_gz_file, 'r:gz'), for a file that
\* exists
extract_open(tar_gz_file) ==
    /\ ar' = [op |-> "extract", file |-> tar_gz_file, phase |-> "extractall",
              todo |-> DOMAIN tar_gz[tar_gz_file].members, files |-> {},
              remove_cache |-> TRUE]
    /\ UNCHANGED <<cache, tar_gz>>

\* tar.extractall, were a member passed over instead of written
extract_member_skipping ==
    /\ ar.op = "extract"
    /\ \E filename \in ar.todo :
         ar' = [ar EXCEPT !.todo = @ \ {filename}, !.files = @ \cup {filename}]
    /\ UNCHANGED <<cache, tar_gz>>

\* tar.extractall, were a member taken out of the archive when written
extract_member_moving ==
    /\ ar.op = "extract"
    /\ \E filename \in ar.todo :
         /\ cache' = Put(cache, filename, tar_gz[ar.file].members[filename])
         /\ tar_gz' = [tar_gz EXCEPT ![ar.file].members = Unlink(@, filename)]
         /\ ar' = [ar EXCEPT !.todo = @ \ {filename}, !.files = @ \cup {filename}]

\* tar.extractall: the next member is written to the cache directory
extract_member ==
    /\ ar.op = "extract"
    /\ \E filename \in ar.todo :
         /\ cache' = Put(cache, filename, tar_gz[ar.file].members[filename])
         /\ ar' = [ar EXCEPT !.todo = @ \ {filename}, !.files = @ \cup {filename}]
    /\ UNCHANGED tar_gz

-----------------------------------------------------------------------------
(* The remote site.  The content of a page is the version of the site it   *)
(* was got from; the region page and the block list pages of a version     *)
(* hold the area elements below.                                           *)

\* The versions of the site; it changes from one to the next, at most
\* between two runs.
Versions == {1, 2}

\* How many runs of main are started.
MaxRuns == 2

Ishikari == [prec_no |-> 14, prec_name |-> "Ishikari-chiho"]
Aomori == [prec_no |-> 31, prec_name |-> "Aomori-ken"]

\* soup_precs.find_all('area') of the region page with the given content
precs_of(content) ==
    IF content = 1
    THEN <<Ishikari, Aomori, Ishikari>>
    ELSE <<[prec_no |-> 99, prec_name |-> Nankyoku], Ishikari>>

\* soup_blocks.find_all('area') of the block list page of a region
blocks_of(prec_no, content) ==
    CASE prec_no = 14 /\ content = 1 ->
            <<None, Li("a", 14163, "Sapporo", 43, 3, 141, 19),
              Li("s", 47412, "Sapporo", 43, 4, 141, 20)>>
      [] prec_no = 14 /\ content # 1 ->
            <<Li("s", 47412, "Sapporo", 43, 4, 141, 20),
              Li("s", 47999, "Sapporo", 43, 9, 141, 29)>>
      [] prec_no = 31 -> <<Li("s", 47575, "Aomori", 40, 49, 140, 46)>>
      [] OTHER -> <<>>

\* The command lines main is run with.
RunArgs ==
    {<<"2025-09-30", "2025-10-01">>, <<"2025-10-01", "2025-10-02">>,
     <<"2025-10-02", "2025-09-30">>}

-----------------------------------------------------------------------------
(* main *)

\* get_dates(start_date, end_date), the loop run to its end
RECURSIVE get_dates_loop(_, _, _, _)
get_dates_loop(dic, s, k, n) ==
    IF ~(k < n) THEN dic
    ELSE LET date == date_plus(s, k)
         IN  get_dates_loop(dict_append(dic, year_month_of(date), date), s, k + 1, n)

get_dates(start_date, end_date) ==
    LET s == strptime(start_date)
        e == strptime(end_date)
    IN  get_dates_loop(<<>>, s, 0, range_len(s, e))

Stopped == {"idle", "done", "aborted", "crashed"}

\* A get_page call: the file name, the content returned, whether the
\* network was asked for it, and the same of the call before it for the
\* file, if there was one with no compress of the file since.
NoCall == [file |-> "", content |-> 0, miss |-> FALSE, network |-> FALSE,
           second |-> FALSE, first_content |-> 0, first_miss |-> FALSE,
           first_network |-> FALSE]

Call(file, content, miss, network) ==
    [file |-> file, content |-> content, miss |-> miss, network |-> network,
     second |-> file \in DOMAIN calls,
     first_content |-> IF file \in DOMAIN calls THEN calls[file].content ELSE 0,
     first_miss |-> IF file \in DOMAIN calls THEN calls[file].miss ELSE FALSE,
     first_network |-> IF file \in DOMAIN calls THEN calls[file].network ELSE FALSE]

\* The history h with v noted for name.
Noted(h, name, v) ==
    [n \in DOMAIN h \cup {name} |-> IF n = name THEN v ELSE h[n]]

\* No request of the run has failed.
NoFail == [file |-> "", requests |-> 0]

\* The file name get_page was called with, from the position of main.
cache_filename ==
    CASE pc = "get_page_precs" -> precs_filename
      [] pc = "get_page_blocks" -> blocks_filename(precs[pi].prec_no)
      [] pc = "get_page_block_date" ->
            LET ymd == split(dic_dates[mi].dates[di], "-")
            IN  block_date_filename(df_m[si].prec_no, df_m[si].block_no,
                                    int(ymd[1]), int(ymd[2]), int(ymd[3]))

\* The first position from k on of a region that is not skipped.
RECURSIVE next_prec(_, _)
next_prec(ps, k) ==
    IF k > Len(ps) THEN k
    ELSE IF ps[k].prec_name = Nankyoku THEN next_prec(ps, k + 1) ELSE k

\* main is started (again): python scrape.py start_date end_date
main_start ==
    /\ pc \in Stopped
    /\ runs < MaxRuns
    /\ runs' = runs + 1
    /\ argv' \in RunArgs
    /\ site' \in {v \in Versions : v >= site}
    /\ pc' = "extract_precs"
    /\ precs' = <<>> /\ pi' = 1 /\ set_prec_block' = {} /\ df_m' = <<>>
    /\ dic_dates' = <<>> /\ mi' = 1 /\ si' = 1 /\ di' = 1 /\ dfs' = <<>>
    /\ gp' = "" /\ resp' = 0 /\ ar' = NoAr
    /\ requests' = 0 /\ needed' = {} /\ failed' = NoFail
    /\ archived0' = UNION {DOMAIN tar_gz[a].members : a \in DOMAIN tar_gz}
    /\ log' = <<>>
    /\ UNCHANGED <<calls, last, persisted, window, archived>>
    /\ UNCHANGED <<fileVars, otherThanMain>>

\* What follows extract_precs() and extract_month(year_month) in main.
after_extract ==
    IF pc = "extract_precs"
    THEN /\ pc' = "get_page_precs" /\ gp' = "call"
         /\ UNCHANGED <<si, di>>
    ELSE /\ si' = 1 /\ di' = 1
         /\ IF df_m = <<>>
            THEN pc' = "compress_month" /\ gp' = ""
            ELSE pc' = "get_page_block_date" /\ gp' = "call"

\* tar_gz_file, were it the same file for every batch
tar_gz_file_same == precs_tar_gz

tar_gz_file ==
    IF pc \in {"extract_precs", "compress_precs"} THEN precs_tar_gz
    ELSE month_tar_gz(dic_dates[mi].key)

\* extract_impl: `if not tar_gz_file.is_file(): return`
extract_absent ==
    /\ pc \in {"extract_precs", "extract_month"} /\ ar = NoAr
    /\ tar_gz_file \notin DOMAIN tar_gz
    /\ after_extract
    /\ window' = window \cup {tar_gz_file}
    /\ log' = Append(log, [op |-> "extract", name |-> tar_gz_file])
    /\ UNCHANGED <<requests, needed, archived0, failed, calls, last, persisted, archived>>
    /\ UNCHANGED <<fileVars, ar, site, runs, argv, mi, dfs, resp>>
    /\ UNCHANGED <<precs, pi, set_prec_block, df_m, dic_dates, otherThanMain>>

\* extract_impl: tarfile.open(tar_gz_file, 'r:gz')
extract_begin ==
    /\ pc \in {"extract_precs", "extract_month"} /\ ar = NoAr
    /\ tar_gz_file \in DOMAIN tar_gz
    /\ extract_open(tar_gz_file)
    /\ window' = window \cup {tar_gz_file}
    /\ log' = Append(log, [op |-> "extract", name |-> tar_gz_file])
    /\ UNCHANGED <<requests, needed, archived0, failed, calls, last, persisted, archived>>
    /\ UNCHANGED <<site, runs, argv, pc, mi, si, di, dfs, gp, resp>>
    /\ UNCHANGED <<precs, pi, set_prec_block, df_m, dic_dates, otherThanMain>>

\* extract_impl: extractall, member by member
extract_next ==
    /\ pc \in {"extract_precs", "extract_month"}
    /\ extract_member
    /\ UNCHANGED histVars
    /\ UNCHANGED <<site, runs, argv, pc, mi, si, di, dfs, gp, resp>>
    /\ UNCHANGED <<precs, pi, set_prec_block, df_m, dic_dates, otherThanMain>>

\* extract_impl: the archive was left incomplete by a compress_impl that did
\* not reach the end of its with block; reading it raises at the latest
\* where the data ends.
extract_raise ==
    /\ pc \in {"extract_precs", "extract_month"}
    /\ ar.op = "extract"
    /\ ~tar_gz[ar.file].complete
    /\ pc' = "aborted" /\ ar' = NoAr
    /\ UNCHANGED histVars
    /\ UNCHANGED <<fileVars, site, runs, argv, mi, si, di, dfs, gp, resp>>
    /\ UNCHANGED <<precs, pi, set_prec_block, df_m, dic_dates, otherThanMain>>

\* extract_impl returns
extract_return ==
    /\ pc \in {"extract_precs", "extract_month"}
    /\ ar.op = "extract" /\ ar.todo = {}
    /\ tar_gz[ar.file].complete
    /\ ar' = NoAr
    /\ after_extract
    /\ UNCHANGED histVars
    /\ UNCHANGED <<fileVars, site, runs, argv, mi, dfs, resp>>
    /\ UNCHANGED <<precs, pi, set_prec_block, df_m, dic_dates, otherThanMain>>

\* What follows get_page(url, cache_filename) returning content: the rest
\* of the loop body of get_master, or of get_df_block_dates and main.
returned(content) ==
    CASE pc = "get_page_precs" ->
            LET ps == precs_of(content)
                k  == next_prec(ps, 1)
            IN  /\ precs' = ps /\ pi' = k
                /\ IF k > Len(ps) THEN pc' = "compress_precs" /\ gp' = ""
                   ELSE pc' = "get_page_blocks" /\ gp' = "call"
                /\ UNCHANGED <<set_prec_block, df_m, si, di, dfs>>
      [] pc = "get_page_blocks" ->
            LET acc == process_prec(table_en,
                                    [seen |-> set_prec_block, rows |-> df_m,
                                     raised |-> FALSE],
                                    precs[pi], blocks_of(precs[pi].prec_no, content))
                k   == next_prec(precs, pi + 1)
            IN  /\ set_prec_block' = acc.seen /\ df_m' = acc.rows /\ pi' = k
                /\ IF acc.raised THEN pc' = "aborted" /\ gp' = ""
                   ELSE IF k > Len(precs) THEN pc' = "compress_precs" /\ gp' = ""
                   ELSE pc' = "get_page_blocks" /\ gp' = "call"
                /\ UNCHANGED <<precs, si, di, dfs>>
      [] pc = "get_page_block_date" ->
            /\ dfs' = Append(dfs, [prec_no |-> df_m[si].prec_no,
                                   block_no |-> df_m[si].block_no,
                                   date |-> dic_dates[mi].dates[di],
                                   file |-> cache_filename, content |-> content])
            /\ IF di < Len(dic_dates[mi].dates)
               THEN di' = di + 1 /\ UNCHANGED <<si, pc>> /\ gp' = "call"
               ELSE IF si < Len(df_m)
               THEN si' = si + 1 /\ di' = 1 /\ UNCHANGED pc /\ gp' = "call"
               ELSE pc' = "compress_month" /\ gp' = "" /\ UNCHANGED <<si, di>>
            /\ UNCHANGED <<precs, pi, set_prec_block, df_m>>

\* get_page: the cache file exists and is read
get_page_hit ==
    /\ gp = "call"
    /\ cache_filename \in DOMAIN cache
    /\ returned(cache[cache_filename])
    /\ needed' = needed \cup {cache_filename}
    /\ log' = Append(log, [op |-> "get_page", name |-> cache_filename])
    /\ last' = Call(cache_filename, cache[cache_filename], FALSE, FALSE)
    /\ calls' = Noted(calls, cache_filename,
                      [content |-> cache[cache_filename], miss |-> FALSE,
                       network |-> FALSE])
    /\ UNCHANGED <<requests, archived0, failed, persisted, window, archived>>
    /\ UNCHANGED <<fileVars, site, runs, argv, mi, resp, ar, dic_dates, otherThanMain>>

\* resp.raise_for_status() of a response that is no success, had it not
\* been there: the text of the response is taken for the page.
raise_for_status_absent ==
    /\ resp' = 0 /\ gp' = "sleep" /\ UNCHANGED pc

\* resp.raise_for_status() of a response that is no success: HTTPError goes
\* up through main, which has no handler.
raise_for_status ==
    /\ pc' = "aborted" /\ gp' = "" /\ UNCHANGED resp

\* get_page with time.sleep(2.5) left out: the cache file is written next
after_response_no_sleep == gp' = "write"

\* get_page after raise_for_status has let the response pass: time.sleep(2.5)
\* is next
after_response == gp' = "sleep"

\* get_page: requests.get(url) and resp.raise_for_status(), with a success
\* response or not
get_page_get ==
    /\ gp = "call"
    /\ cache_filename \notin DOMAIN cache
    /\ requests' = requests + 1
    /\ needed' = needed \cup {cache_filename}
    /\ log' = log \o <<[op |-> "get_page", name |-> cache_filename],
                       [op |-> "request", name |-> cache_filename]>>
    /\ \/ /\ resp' = site /\ after_response /\ UNCHANGED <<pc, failed>>
       \/ /\ raise_for_status
          /\ failed' = [file |-> cache_filename, requests |-> requests + 1]
    /\ UNCHANGED <<archived0, calls, last, persisted, window, archived>>
    /\ UNCHANGED <<fileVars, site, runs, argv, mi, si, di, dfs, ar>>
    /\ UNCHANGED <<precs, pi, set_prec_block, df_m, dic_dates, otherThanMain>>

\* get_page: time.sleep(2.5)
get_page_sleep ==
    /\ gp = "sleep"
    /\ gp' = "write"
    /\ log' = Append(log, [op |-> "sleep", name |-> cache_filename])
    /\ UNCHANGED <<requests, needed, archived0, failed, calls, last, persisted, window,
                   archived>>
    /\ UNCHANGED <<fileVars, site, runs, argv, pc, mi, si, di, dfs, resp, ar>>
    /\ UNCHANGED <<precs, pi, set_prec_block, df_m, dic_dates, otherThanMain>>

\* open(cache_file, 'w') and ofile.write(content), were they left out
write_nowhere(content) == cache' = cache

\* with open(cache_file, 'w', encoding='utf8') as ofile: ofile.write(content)
write(content) == cache' = Put(cache, cache_filename, content)

\* get_page: the cache file is written and the content returned
get_page_write ==
    /\ gp = "write"
    /\ write(resp)
    /\ returned(resp)
    /\ last' = Call(cache_filename, resp, TRUE, TRUE)
    /\ calls' = Noted(calls, cache_filename,
                      [content |-> resp, miss |-> TRUE, network |-> TRUE])
    /\ persisted' = Noted(persisted, cache_filename, resp)
    /\ UNCHANGED <<requests, needed, archived0, failed, window, archived, log>>
    /\ UNCHANGED <<tar_gz, site, runs, argv, mi, resp, ar, dic_dates, otherThanMain>>

\* compress_precs / compress_month up to the opening of the archive
compress_begin ==
    /\ pc \in {"compress_precs", "compress_month"} /\ ar = NoAr
    /\ LET cache_files ==
            IF pc = "compress_precs" THEN precs_cache_files
            ELSE month_cache_files(dic_dates[mi].key)
       IN  /\ compress_open(tar_gz_file, cache_files, TRUE)
           /\ calls' = [f \in DOMAIN calls \ cache_files |-> calls[f]]
    /\ log' = Append(log, [op |-> "compress", name |-> tar_gz_file])
    /\ UNCHANGED <<requests, needed, archived0, failed, last, persisted, window, archived>>
    /\ UNCHANGED <<site, runs, argv, pc, mi, si, di, dfs, gp, resp>>
    /\ UNCHANGED <<precs, pi, set_prec_block, df_m, dic_dates, otherThanMain>>

\* compress_impl: the loops and the end of the with block
compress_step ==
    /\ pc \in {"compress_precs", "compress_month"}
    /\ \/ compress_add
       \/ compress_close
       \/ compress_unlink
    /\ archived' = IF ar.phase = "add" /\ ar.todo = {}
                   THEN [f \in DOMAIN archived \cup DOMAIN tar_gz[ar.file].members |->
                            IF f \in DOMAIN tar_gz[ar.file].members
                            THEN tar_gz[ar.file].members[f] ELSE archived[f]]
                   ELSE archived
    /\ UNCHANGED <<requests, needed, archived0, failed, calls, last, persisted, window,
                   log>>
    /\ UNCHANGED <<site, runs, argv, pc, mi, si, di, dfs, gp, resp>>
    /\ UNCHANGED <<precs, pi, set_prec_block, df_m, dic_dates, otherThanMain>>

\* compress_impl returns: after compress_precs() the plan is made, after
\* compress_month(year_month) the next month follows.
compress_return ==
    /\ pc \in {"compress_precs", "compress_month"}
    /\ ar.op = "compress" /\ ar.phase = "unlink" /\ ar.todo = {}
    /\ ar' = NoAr
    /\ IF pc = "compress_precs"
       THEN LET dic == get_dates(argv[1], argv[2])
            IN  /\ dic_dates' = dic /\ mi' = 1
                /\ pc' = IF dic = <<>> THEN "done" ELSE "extract_month"
       ELSE /\ UNCHANGED dic_dates
            /\ IF mi < Len(dic_dates)
               THEN mi' = mi + 1 /\ pc' = "extract_month"
               ELSE pc' = "done" /\ UNCHANGED mi
    /\ window' = window \ {ar.file}
    /\ log' = Append(log, [op |-> "compressed", name |-> ar.file])
    /\ UNCHANGED <<requests, needed, archived0, failed, calls, last, persisted, archived>>
    /\ UNCHANGED <<fileVars, site, runs, argv, si, di, dfs, gp, resp>>
    /\ UNCHANGED <<precs, pi, set_prec_block, df_m, otherThanMain>>

\* The process is killed.
crash ==
    /\ pc \notin Stopped
    /\ pc' = "crashed" /\ gp' = "" /\ ar' = NoAr
    /\ UNCHANGED histVars
    /\ UNCHANGED <<fileVars, site, runs, argv, mi, si, di, dfs, resp>>
    /\ UNCHANGED <<precs, pi, set_prec_block, df_m, dic_dates, otherThanMain>>

MainIdle ==
    /\ site = 1 /\ runs = 0 /\ argv = <<"", "">> /\ pc = "idle"
    /\ mi = 1 /\ si = 1 /\ di = 1 /\ dfs = <<>> /\ gp = "" /\ resp = 0 /\ ar = NoAr

FilesEmpty == cache = EmptyDir /\ tar_gz = EmptyDir

HistEmpty ==
    /\ rt = NoRt
    /\ requests = 0 /\ needed = {} /\ archived0 = {} /\ failed = NoFail
    /\ calls = EmptyDir /\ last = NoCall /\ persisted = EmptyDir /\ window = {}
    /\ archived = EmptyDir /\ log = <<>>

MainNext ==
    \/ main_start
    \/ extract_absent \/ extract_begin \/ extract_next \/ extract_raise \/ extract_return
    \/ get_page_hit \/ get_page_get \/ get_page_sleep \/ get_page_write
    \/ compress_begin \/ compress_step \/ compress_return
    \/ crash

-----------------------------------------------------------------------------
(* compress followed by extract, for a batch, on any cache directory *)

\* The batches: the region and block list pages, and the months.
Batches == {"prefectures", "2025-09", "2025-10"}

batch_tar_gz(batch) ==
    IF batch = "prefectures" THEN precs_tar_gz ELSE month_tar_gz(batch)

batch_cache_files(batch) ==
    IF batch = "prefectures" THEN precs_cache_files ELSE month_cache_files(batch)

\* The files that lie in the cache directory, and what they hold.
LooseNames ==
    {precs_filename, blocks_filename(14),
     block_date_filename(14, 47412, 2025, 9, 30),
     block_date_filename(31, 47575, 2025, 9, 30),
     block_date_filename(14, 47412, 2025, 10, 1),
     "memo.txt"}

Contents == {1, 2}

\* The archives of an earlier compress, or none.
EarlierArchives ==
    [a \in {batch_tar_gz(b) : b \in Batches} |->
        [complete |-> TRUE,
         members |-> IF a = month_tar_gz("2025-09")
                     THEN [f \in {block_date_filename(14, 47412, 2025, 9, 29),
                                  block_date_filename(31, 47575, 2025, 9, 30)} |-> 2]
                     ELSE IF a = precs_tar_gz
                     THEN [f \in {blocks_filename(31)} |-> 2]
                     ELSE EmptyDir]]

ArchiveInit ==
    /\ \E names \in SUBSET LooseNames : cache \in [names -> Contents]
    /\ tar_gz \in {EmptyDir, EarlierArchives}
    /\ site = 1 /\ runs = 0 /\ argv = <<"", "">> /\ pc = "rt_idle"
    /\ mi = 1 /\ si = 1 /\ di = 1 /\ dfs = <<>> /\ gp = "" /\ resp = 0 /\ ar = NoAr

\* compress_precs(remove_cache) or compress_month(year_month, remove_cache)
\* is called
roundtrip_compress ==
    /\ pc = "rt_idle"
    /\ \E batch \in Batches, remove_cache \in BOOLEAN :
         /\ compress_open(batch_tar_gz(batch), batch_cache_files(batch), remove_cache)
         /\ rt' = [batch |-> batch, before |-> cache,
                   compressed |-> batch_cache_files(batch),
                   remove_cache |-> remove_cache]
    /\ pc' = "rt_compress"
    /\ UNCHANGED otherThanArchive

\* compress_impl: the loops and the end of the with block
roundtrip_compress_step ==
    /\ pc = "rt_compress"
    /\ \/ compress_add
       \/ compress_close
       \/ compress_unlink
    /\ UNCHANGED <<pc, rt, otherThanArchive>>

\* compress_impl returns, and extract_precs() or extract_month(year_month)
\* is called: tarfile.open(tar_gz_file, 'r:gz')
roundtrip_extract ==
    /\ pc = "rt_compress"
    /\ ar.op = "compress" /\ ar.phase = "unlink" /\ ar.todo = {}
    /\ batch_tar_gz(rt.batch) \in DOMAIN tar_gz
    /\ extract_open(batch_tar_gz(rt.batch))
    /\ pc' = "rt_extract"
    /\ UNCHANGED <<rt, otherThanArchive>>

\* extract_impl: extractall, member by member
roundtrip_extract_next ==
    /\ pc = "rt_extract"
    /\ extract_member
    /\ UNCHANGED <<pc, rt, otherThanArchive>>

\* extract_impl returns
roundtrip_extract_return ==
    /\ pc = "rt_extract"
    /\ ar.op = "extract" /\ ar.todo = {}
    /\ tar_gz[ar.file].complete
    /\ pc' = "rt_done"
    /\ UNCHANGED <<fileVars, ar, rt, otherThanArchive>>

ArchiveNext ==
    \/ roundtrip_compress \/ roundtrip_compress_step
    \/ roundtrip_extract \/ roundtrip_extract_next \/ roundtrip_extract_return

-----------------------------------------------------------------------------
(* extract_precs / extract_month on their own, called twice for a batch. *)

\* The archives of an earlier compress, that of a month left where a
\* compress_impl was killed.
TruncatedArchives ==
    [EarlierArchives EXCEPT ![month_tar_gz("2025-09")].complete = FALSE]

ExtractInit ==
    /\ \E names \in SUBSET LooseNames : cache \in [names -> Contents]
    /\ tar_gz \in {EmptyDir, EarlierArchives, TruncatedArchives}
    /\ site = 1 /\ runs = 0 /\ argv = <<"", "">> /\ pc = "x_idle"
    /\ mi = 1 /\ si = 1 /\ di = 1 /\ dfs = <<>> /\ gp = "" /\ resp = 0 /\ ar = NoAr

\* What is kept of the first call: the batch, the directories before it.
first_call(batch) ==
    [batch |-> batch, before |-> cache, archives |-> tar_gz, once |-> cache]

\* extract_precs() or extract_month(year_month) is called, the first time
\* for any batch and then once more for the same; tar_gz_file.is_file() is
\* false and extract_impl returns.
extract_twice_absent ==
    /\ pc \in {"x_idle", "x_once"}
    /\ \E batch \in Batches :
         /\ pc = "x_once" => batch = rt.batch
         /\ batch_tar_gz(batch) \notin DOMAIN tar_gz
         /\ rt' = IF pc = "x_idle" THEN first_call(batch) ELSE rt
    /\ pc' = IF pc = "x_idle" THEN "x_once" ELSE "x_twice"
    /\ UNCHANGED <<fileVars, ar, otherThanArchive>>

\* The same call when the archive exists: tarfile.open(tar_gz_file, 'r:gz')
extract_twice_open ==
    /\ pc \in {"x_idle", "x_once"}
    /\ \E batch \in Batches :
         /\ pc = "x_once" => batch = rt.batch
         /\ batch_tar_gz(batch) \in DOMAIN tar_gz
         /\ extract_open(batch_tar_gz(batch))
         /\ rt' = IF pc = "x_idle" THEN first_call(batch) ELSE rt
    /\ pc' = IF pc = "x_idle" THEN "x_first" ELSE "x_second"
    /\ UNCHANGED otherThanArchive

\* extract_impl: extractall, member by member
extract_twice_next ==
    /\ pc \in {"x_first", "x_second"}
    /\ extract_member
    /\ UNCHANGED <<pc, rt, otherThanArchive>>

\* extract_impl: reading an archive that was left incomplete raises
extract_twice_raise ==
    /\ pc \in {"x_first", "x_second"}
    /\ ar.op = "extract"
    /\ ~tar_gz[ar.file].complete
    /\ pc' = "x_raised" /\ ar' = NoAr
    /\ UNCHANGED <<fileVars, rt, otherThanArchive>>

\* extract_impl returns
extract_twice_return ==
    /\ pc \in {"x_first", "x_second"}
    /\ ar.op = "extract" /\ ar.todo = {}
    /\ tar_gz[ar.file].complete
    /\ ar' = NoAr
    /\ rt' = IF pc = "x_first" THEN [rt EXCEPT !.once = cache] ELSE rt
    /\ pc' = IF pc = "x_first" THEN "x_once" ELSE "x_twice"
    /\ UNCHANGED <<fileVars, otherThanArchive>>

ExtractNext ==
    \/ extract_twice_absent \/ extract_twice_open \/ extract_twice_next
    \/ extract_twice_raise \/ extract_twice_return

-----------------------------------------------------------------------------
(* validate.py: validate_column on the rows of the window, and its export. *)
(* Column names are romanised: kion is the temperature column.             *)

dict_valiable_name_en ==
    ("kion" :> "temp" @@ "shitsudo" :> "humid" @@ "kousuiryou" :> "precip"
     @@ "fuusoku" :> "wind" @@ "kousetsu" :> "snowfall" @@ "sekisetsu" :> "snow")

\* column = '気温' in main
column == "kion"

\* format(date_str)
format(date_str) ==
    SubSeq(date_str, 1, 4) \o "-" \o SubSeq(date_str, 5, 6) \o "-"
    \o SubSeq(date_str, 7, 8)

Digits == {"0", "1", "2", "3", "4", "5", "6", "7", "8", "9"}

is_digits(s) == Len(s) > 0 /\ \A k \in 1..Len(s) : SubSeq(s, k, k) \in Digits

\* s.strip(), as float does before it reads the number
RECURSIVE strip(_)
strip(s) ==
    IF Len(s) > 0 /\ SubSeq(s, 1, 1) = " " THEN strip(SubSeq(s, 2, Len(s)))
    ELSE IF Len(s) > 0 /\ SubSeq(s, Len(s), Len(s)) = " "
         THEN strip(SubSeq(s, 1, Len(s) - 1))
         ELSE s

\* Whether float(value) returns, for the texts of a page cell: blanks
\* around, a sign, then nan, inf, infinity or digits with at most one point
\* (exponents and underscores do not occur in the cells).
float_returns(value) ==
    LET t == strip(value)
        u == IF Len(t) > 0 /\ SubSeq(t, 1, 1) \in {"+", "-"}
             THEN SubSeq(t, 2, Len(t)) ELSE t
        parts == split(u, ".")
    IN  \/ u \in {"nan", "inf", "infinity"}
        \/ Len(parts) = 1 /\ is_digits(parts[1])
        \/ /\ Len(parts) = 2
           /\ parts[1] = "" \/ is_digits(parts[1])
           /\ parts[2] = "" \/ is_digits(parts[2])
           /\ parts[1] # "" \/ parts[2] # ""

\* is_numeric(value)
is_numeric(value) == float_returns(value)

\* to_numeric_safe(value): the number as its text, or nan
to_numeric_safe(value) ==
    IF float_returns(value) /\ strip(value) \notin {"nan", "+nan", "-nan"}
    THEN strip(value) ELSE "nan"

\* weather.merge(master[[prec_no, block_no, block_name_en]], how='left'):
\* the block_name_en of the row, NaN shown as "" when master has no such row
merged_name_en(row) ==
    LET ms == {m \in master : m.prec_no = row.prec_no /\ m.block_no = row.block_no}
    IN  IF ms = {} THEN "" ELSE (CHOOSE m \in ms : TRUE).block_name_en

\* weather['_valid'] = weather[column].apply(is_numeric)
valid(row) == is_numeric(row[column])

\* weather['年月日'].min()
min_date(rows) ==
    CHOOSE d \in {r.date : r \in rows} : \A r \in rows : int(d) <= int(r.date)

NoCsv == [file |-> "", columns |-> {}, cells |-> <<>>]

\* reshape_weather(weather, master, [var]): the wide table, by its columns
\* beside timestamp and, for each, the value at each timestamp.
reshape_weather(rows, var) ==
    LET timestamp(r) == <<r.date, int(r.hour)>>
        block_name(r) ==
            (CHOOSE m \in master : m.block_no = r.block_no).block_name_en
        timestamps == {timestamp(r) : r \in rows}
        names == {block_name(r) : r \in rows}
        head(name) == dict_valiable_name_en[var] \o "_" \o name
        cell(name, ts) ==
            LET rs == {r \in rows : block_name(r) = name /\ timestamp(r) = ts}
            IN  IF rs = {} THEN "nan"
                ELSE to_numeric_safe((CHOOSE r \in rs : TRUE)[var])
    IN  [columns |-> {head(name) : name \in names},
         cells |-> {<<head(name), ts, cell(name, ts)>> :
                        name \in names, ts \in timestamps}]

\* valid_weather, were it what is reshaped
rows_to_export_valid_only(rows) ==
    LET invalid_blocks == {<<r.prec_no, r.block_no>> : r \in {x \in rows : ~valid(x)}}
    IN  {r \in rows : <<r.prec_no, r.block_no>> \notin invalid_blocks}

\* The first argument of reshape_weather in validate_column: weather
rows_to_export(rows) == rows

\* The stations of the master file, and the rows of the window: for each
\* station and hour of one day at most one row, with the text of the cell.
MasterRows ==
    {[prec_no |-> 14, block_no |-> 47412, block_name_en |-> "sapporo"],
     [prec_no |-> 31, block_no |-> 47575, block_name_en |-> "aomori"]}

CellTexts == {"12.5", "-0.3", "--", "12.5 )", "nan"}

WeatherRows ==
    {[prec_no |-> m.prec_no, block_no |-> m.block_no, date |-> "20250930",
      hour |-> h, kion |-> t] : m \in MasterRows, h \in {"1", "24"}, t \in CellTexts}

ValidateIdle ==
    /\ weather = {} /\ master = {} /\ output_valid = FALSE
    /\ summary = <<>> /\ out_csv = NoCsv /\ vpc = "idle"

ValidateInit ==
    /\ weather \in {w \in SUBSET WeatherRows :
                      \A r1, r2 \in w :
                          r1.block_no = r2.block_no /\ r1.hour = r2.hour => r1 = r2}
    /\ master = MasterRows
    /\ output_valid \in BOOLEAN
    /\ summary = <<>> /\ out_csv = NoCsv /\ vpc = "start"

\* validate_column on no row: weather['年月日'].min() is NaN, and format
\* raises TypeError on it
validate_raise ==
    /\ vpc = "start" /\ weather = {}
    /\ vpc' = "raised"
    /\ UNCHANGED <<weather, master, output_valid, summary, out_csv>>
    /\ UNCHANGED otherThanValidate

\* validate_column up to the printed summary
validate_summary ==
    /\ vpc = "start" /\ weather # {}
    /\ LET names == {merged_name_en(r) : r \in weather} \ {""}
           missing_df == {r \in weather : ~valid(r)}
           blocks_with_missing == {merged_name_en(r) : r \in missing_df} \ {""}
       IN  summary' = [actual_start |-> format(min_date(weather)),
                       total_blocks |-> Cardinality(names),
                       blocks_with_missing |-> Cardinality(blocks_with_missing),
                       blocks_without_missing |->
                           Cardinality(names) - Cardinality(blocks_with_missing)]
    /\ vpc' = "reported"
    /\ UNCHANGED <<weather, master, output_valid, out_csv>>
    /\ UNCHANGED otherThanValidate

\* `if not output_valid: return`
validate_return ==
    /\ vpc = "reported" /\ ~output_valid
    /\ vpc' = "done"
    /\ UNCHANGED <<weather, master, output_valid, summary, out_csv>>
    /\ UNCHANGED otherThanValidate

\* The export: n_blocks is counted on valid_weather, the table is made by
\* reshape_weather and written.
validate_export ==
    /\ vpc = "reported" /\ output_valid
    /\ LET valid_weather == rows_to_export_valid_only(weather)
           n_blocks == Cardinality({<<r.prec_no, r.block_no>> : r \in valid_weather})
           result == reshape_weather(rows_to_export(weather), column)
       IN  out_csv' = [file |-> "out/weather_japan_" \o summary.actual_start \o "_"
                                \o summary.actual_start \o "_" \o str(n_blocks)
                                \o "_blocks.csv",
                       columns |-> result.columns,
                       cells |-> result.cells]
    /\ vpc' = "done"
    /\ UNCHANGED <<weather, master, output_valid, summary>>
    /\ UNCHANGED otherThanValidate

ValidateNext ==
    validate_raise \/ validate_summary \/ validate_return \/ validate_export

-----------------------------------------------------------------------------
(* The cache file names of the pages and the batches that select them. *)

\* The pages get_page is called for: the region list, the station list
\* of a region, the page of a station and day.
precs_target == [kind |-> "precs"]

blocks_target(prec_no) == [kind |-> "blocks", prec_no |-> prec_no]

block_date_target(prec_no, block_no, date) ==
    [kind |-> "block_date", prec_no |-> prec_no, block_no |-> block_no,
     date |-> date]

\* Region and station numbers of which one is the other with a digit more,
\* and days of which two are in one month, two in the same month of
\* different years and two in months whose numbers begin alike.
TargetPrecNos == {1, 11, 14}

TargetBlockNos == {1, 11, 47412}

TargetDates ==
    {<<2025, 9, 30>>, <<2025, 10, 1>>, <<2025, 10, 11>>, <<2025, 1, 1>>,
     <<2025, 11, 1>>, <<2024, 10, 1>>}

Targets ==
    {precs_target} \cup {blocks_target(p) : p \in TargetPrecNos}
    \cup {block_date_target(p, b, d) :
            p \in TargetPrecNos, b \in TargetBlockNos, d \in TargetDates}

\* cache_filename in get_page_precs, get_page_blocks and get_page_block_date
cache_filename_of(t) ==
    CASE t.kind = "precs" -> precs_filename
      [] t.kind = "blocks" -> blocks_filename(t.prec_no)
      [] t.kind = "block_date" ->
            block_date_filename(t.prec_no, t.block_no, t.date[1], t.date[2], t.date[3])

\* The batches: that of compress_precs, and that of compress_month for
\* each year_month that get_dates makes of the days.
NameBatches ==
    {"prefectures"} \cup {year_month_of(strftime(d)) : d \in TargetDates}

\* Whether the list comprehension of compress_precs or compress_month
\* keeps the file name.
selects(batch, filename) ==
    IF batch = "prefectures" THEN is_precs_target(filename)
    ELSE is_target(filename, batch)

NamesIdle ==
    targets = <<>> /\ filenames = <<>> /\ selected = <<>> /\ npc = "idle"

NamesInit ==
    /\ targets \in Targets \X Targets
    /\ filenames = <<>> /\ selected = <<>> /\ npc = "start"

\* The cache file names are made.
name_targets ==
    /\ npc = "start"
    /\ filenames' = <<cache_filename_of(targets[1]), cache_filename_of(targets[2])>>
    /\ npc' = "named"
    /\ UNCHANGED <<targets, selected>>
    /\ UNCHANGED otherThanNames

\* The file names lie in the cache directory when compress is called for
\* each batch.
select_names ==
    /\ npc = "named"
    /\ selected' = [k \in 1..2 |->
                      {batch \in NameBatches : selects(batch, filenames[k])}]
    /\ npc' = "selected"
    /\ UNCHANGED <<targets, filenames>>
    /\ UNCHANGED otherThanNames

NamesNext == name_targets \/ select_names

-----------------------------------------------------------------------------
(* The specifications. *)

\* validate_column on the rows of a window.
InitValidate ==
    ValidateInit /\ DatesIdle /\ MasterIdle /\ ParseIdle /\ MainIdle /\ FilesEmpty
    /\ HistEmpty /\ NamesIdle

\* The cache file names and the batches of two pages.
InitNames ==
    NamesInit /\ DatesIdle /\ MasterIdle /\ ParseIdle /\ MainIdle /\ FilesEmpty
    /\ HistEmpty /\ ValidateIdle

SpecNames == InitNames /\ [][NamesNext]_vars

SpecValidate == InitValidate /\ [][ValidateNext]_vars

\* extract on its own, twice.
InitExtract ==
    ExtractInit /\ DatesIdle /\ MasterIdle /\ ParseIdle /\ HistEmpty /\ ValidateIdle
    /\ NamesIdle

SpecExtract == InitExtract /\ [][ExtractNext]_vars

\* compress and extract on their own.
InitArchive == ArchiveInit /\ DatesIdle /\ MasterIdle /\ ParseIdle /\ HistEmpty /\ ValidateIdle /\ NamesIdle

SpecArchive == InitArchive /\ [][ArchiveNext]_vars

InitDates == DatesInit /\ MasterIdle /\ ParseIdle /\ MainIdle /\ FilesEmpty /\ HistEmpty /\ ValidateIdle /\ NamesIdle

SpecDates == InitDates /\ [][DatesNext]_vars

InitMaster == MasterInit /\ DatesIdle /\ ParseIdle /\ MainIdle /\ FilesEmpty /\ HistEmpty /\ ValidateIdle /\ NamesIdle

SpecMaster == InitMaster /\ [][MasterNext]_vars

\* get_master on given pages and a given dict_block_name_en.
InitMasterTable ==
    MasterTableInit /\ DatesIdle /\ ParseIdle /\ MainIdle /\ FilesEmpty /\ HistEmpty
    /\ ValidateIdle /\ NamesIdle

SpecMasterTable == InitMasterTable /\ [][MasterNext]_vars

InitParse == ParseInit /\ DatesIdle /\ MasterIdle /\ MainIdle /\ FilesEmpty /\ HistEmpty /\ ValidateIdle /\ NamesIdle

SpecParse == InitParse /\ [][ParseNext]_vars

\* The runs of main, from an empty cache directory and no archive.
Init == MainIdle /\ FilesEmpty /\ HistEmpty /\ ValidateIdle /\ DatesIdle /\ MasterIdle /\ ParseIdle /\ NamesIdle

Spec == Init /\ [][MainNext]_vars

-----------------------------------------------------------------------------
(* Properties of get_master *)

\* C16 as it was claimed: no two rows of the master table returned by
\* get_master have the same region id and station id.
C16_Claimed ==
    mpc = "done" =>
        \A k, l \in 1..Len(df_m) :
            k # l => ~(/\ df_m[k].prec_no = df_m[l].prec_no
                       /\ df_m[k].block_no = df_m[l].block_no)

\* get_master has returned two rows with the same region id and station
\* id, under two composite keys.
C16_Witness ==
    /\ mpc = "done"
    /\ \E k, l \in 1..Len(df_m) :
         /\ k < l
         /\ df_m[k].prec_no = df_m[l].prec_no /\ df_m[k].block_no = df_m[l].block_no
         /\ prec_block_of(df_m[k].prec_name, df_m[k].block_name)
                # prec_block_of(df_m[l].prec_name, df_m[l].block_name)

\* A station entry of a page processed so far that has the observatory
\* kind flag and a composite key of prec_blocks_target, and no entry in
\* the table.
MissingEntry ==
    \E k \in 1..(pi - 1) :
        /\ k <= Len(precs)
        /\ precs[k].prec_name # Nankyoku
        /\ \E n \in 1..Len(PageOf(precs[k])) :
              LET li == PageOf(precs[k])[n]
              IN  /\ li # None
                  /\ li.kind = "s"
                  /\ prec_block_of(precs[k].prec_name, li.block_name)
                         \in prec_blocks_target
                  /\ li.block_name \notin DOMAIN table_en

RowsAreFromTheTable ==
    /\ \A n \in 1..Len(df_m) :
          /\ df_m[n].block_name \in DOMAIN table_en
          /\ df_m[n].block_name_en = table_en[df_m[n].block_name]
          /\ df_m[n].block_name_en \notin {"", KeyError}
    /\ mpc \in {"loop", "done", "raised"} => (mpc = "raised" <=> MissingEntry)
    /\ table_en = dict_block_name_en => mpc # "raised"

\* C20: get_master raises exactly when a station entry that has the
\* observatory kind flag and a composite key of prec_blocks_target has no
\* entry in dict_block_name_en; once it has raised, no row is added and
\* get_master does not reach to_csv and return; every row of the master
\* table, returned or not, carries the entry of the table for its station
\* name, never an empty or default name; and with the table as the module
\* defines it get_master does not raise for any page.
C20_MissingEntryIsFatal ==
    /\ []RowsAreFromTheTable
    /\ [][mpc = "raised" => UNCHANGED <<mpc, df_m>>]_vars

\* get_master has raised on the entry of Aomori, which is not in the
\* table, after the row of Sapporo was added.
C20_Witness ==
    /\ mpc = "raised"
    /\ "Aomori" \notin DOMAIN table_en
    /\ Len(df_m) = 1 /\ df_m[1].block_name_en = "sapporo"
    /\ "Aomori-ken::Aomori" \in set_prec_block

-----------------------------------------------------------------------------
(* Properties of get_df_block_date *)

SameKey(r1, r2) ==
    /\ r1.prec_no = r2.prec_no /\ r1.block_no = r2.block_no
    /\ r1.date = r2.date /\ r1.hour = r2.hour

\* C15 as it was claimed: among the rows produced from a page, each
\* combination of region id, station id, date and hour appears at most
\* once.
C15_Claimed ==
    ppc = "done" =>
        \A k, l \in 1..Len(data_rows) :
            k # l => ~SameKey(data_rows[k], data_rows[l])

\* get_df_block_date has returned two rows for the same hour.
C15_Witness ==
    /\ ppc = "done"
    /\ \E k, l \in 1..Len(data_rows) :
         k < l /\ SameKey(data_rows[k], data_rows[l])

-----------------------------------------------------------------------------
(* Properties of the runs of main *)

\* C1: when the archives that were there at the start of a run hold the
\* cache file of every page the run has called get_page for, the run has
\* made no network request.
C1_ArchivedPagesNeedNoRequest ==
    needed \subseteq archived0 => requests = 0

\* A later run has ended; all its pages, region and block list pages and
\* pages of days, were in the archives, and no request was made.
C1_Witness ==
    /\ pc = "done" /\ runs >= 2
    /\ needed \subseteq archived0 /\ requests = 0
    /\ \E f \in needed : is_precs_target(f)
    /\ \E f \in needed : ~is_precs_target(f)

Available(f) ==
    \/ f \in DOMAIN cache /\ cache[f] = persisted[f]
    \/ \E a \in DOMAIN tar_gz :
         /\ tar_gz[a].complete
         /\ f \in DOMAIN tar_gz[a].members
         /\ tar_gz[a].members[f] = persisted[f]

C8_FailedRequestEndsTheRun ==
    failed # NoFail =>
        /\ pc = "aborted" /\ gp = "" /\ ar = NoAr
        /\ failed.file \notin DOMAIN cache
        /\ requests = failed.requests

\* A request failed after others of the run had succeeded.
C8_Witness ==
    failed # NoFail /\ failed.requests >= 2 /\ pc = "aborted"

\* C9 as it was claimed: an archive is never left partially written; but
\* for the compress_impl that is writing it, every archive file is one
\* written to its end.
C9_Claimed ==
    \A a \in DOMAIN tar_gz :
        tar_gz[a].complete \/ (ar.op = "compress" /\ ar.file = a)

\* A run was killed inside compress_impl, and a later run has been aborted
\* by extract_impl raising on the archive that was left.
C9_Witness ==
    /\ pc = "aborted" /\ runs >= 2 /\ failed = NoFail
    /\ \E a \in DOMAIN tar_gz : ~tar_gz[a].complete

\* The file names of the runs, and for each the archives whose batch
\* compress_precs or compress_month selects it for.
RunFileNames ==
    {precs_filename} \cup {blocks_filename(p) : p \in {14, 31, 99}}
    \cup {block_date_filename(14, b, 2025, d[1], d[2]) :
            b \in {47412, 47999}, d \in {<<9, 30>>, <<10, 1>>, <<10, 2>>}}
    \cup {block_date_filename(31, 47575, 2025, d[1], d[2]) :
            d \in {<<9, 30>>, <<10, 1>>, <<10, 2>>}}

RunMonths == {"2025-09", "2025-10"}

archives_of ==
    [f \in RunFileNames |->
        {month_tar_gz(m) : m \in {k \in RunMonths : is_target(f, k)}}
        \cup (IF is_precs_target(f) THEN {precs_tar_gz} ELSE {})]

\* The files of the cache directory that belong to the batch of an archive.
Loose(a) == {f \in DOMAIN cache : a \in archives_of[f]}

\* C10 as it was claimed: when the archive of a batch exists, no file of
\* the batch is in the cache directory unless extract_impl or
\* compress_impl is at work on that archive.
C10_Claimed ==
    \A a \in DOMAIN tar_gz :
        Loose(a) = {} \/ (ar.op \in {"extract", "compress"} /\ ar.file = a)

\* C10: when the archive of a batch exists, files of the batch are in the
\* cache directory only from the call of extract for the batch until the
\* next compress for the batch has returned, in the same run or, when the
\* run ends before, in a later one.
C10_LooseOnlyFromExtractToCompress ==
    \A a \in DOMAIN tar_gz : Loose(a) # {} => a \in window

\* A run has ended between extract and compress: the archive of the batch
\* and files of the batch are both there.
C10_Witness ==
    /\ pc \in {"aborted", "crashed"}
    /\ \E a \in DOMAIN tar_gz : tar_gz[a].complete /\ Loose(a) # {} /\ a \in window

\* C13: an archive that was written to its end holds every file that an
\* archive of its batch that was written to its end ever held, with the
\* same content: no run, whatever part of a month it covers, drops an
\* entry by compressing the month again; and when a run has ended, every
\* page it asked for is in such an archive.
C13_RecompressionKeepsEntries ==
    /\ \A a \in DOMAIN tar_gz :
         tar_gz[a].complete =>
            \A f \in DOMAIN archived :
                a \in archives_of[f] =>
                    /\ f \in DOMAIN tar_gz[a].members
                    /\ tar_gz[a].members[f] = archived[f]
    /\ pc = "done" =>
         \A f \in needed :
            \E a \in DOMAIN tar_gz :
                tar_gz[a].complete /\ f \in DOMAIN tar_gz[a].members

\* A later run over a part of a month has ended, with requests made: the
\* archive of the month, written again by the run, holds a page the run
\* did not ask for beside one it asked for.
C13_Witness ==
    /\ pc = "done" /\ runs >= 2 /\ requests > 0
    /\ \E a \in DOMAIN tar_gz \ {precs_tar_gz} :
         /\ tar_gz[a].complete
         /\ \E f \in DOMAIN tar_gz[a].members : f \in archived0 /\ f \notin needed
         /\ \E f \in DOMAIN tar_gz[a].members : f \in needed

\* The positions of the log with the call op for name.
Calls(op, name) == {k \in 1..Len(log) : log[k].op = op /\ log[k].name = name}

\* The archives of the batches of the run: the region and block list
\* pages, and the months of the plan.
RunArchives ==
    {precs_tar_gz} \cup {month_tar_gz(dic_dates[m].key) : m \in 1..Len(dic_dates)}

\* C14: in a run, extract and compress are called at most once for a
\* batch, and once each when the run has ended; every get_page call for a
\* file of a batch comes after the extract of the batch and before its
\* compress; and when extract is called for a batch, the compress of
\* every batch extracted before has returned.
C14_ExtractAndCompressBracketTheBatch ==
    /\ \A k \in 1..Len(log) :
         /\ log[k].op \in {"extract", "compress", "compressed"}
                => Calls(log[k].op, log[k].name) = {k}
         /\ log[k].op = "get_page" =>
                \A a \in archives_of[log[k].name] :
                    /\ \E j \in Calls("extract", a) : j < k
                    /\ \A j \in Calls("compress", a) : k < j
         /\ log[k].op = "compress" => \E j \in Calls("extract", log[k].name) : j < k
         /\ log[k].op = "extract" =>
                \A j \in 1..(k - 1) :
                    log[j].op = "extract" =>
                        \E c \in Calls("compressed", log[j].name) : j < c /\ c < k
    /\ pc = "done" =>
         \A a \in RunArchives :
            /\ Cardinality(Calls("extract", a)) = 1
            /\ Cardinality(Calls("compress", a)) = 1
            /\ Cardinality(Calls("compressed", a)) = 1

\* A run over two months has ended, with pages got for each.
C14_Witness ==
    /\ pc = "done" /\ Len(dic_dates) = 2 /\ Len(dfs) >= 2
    /\ Cardinality({k \in 1..Len(log) : log[k].op = "compressed"}) = 3

\* The positions of the log with a network request.
Requests == {k \in 1..Len(log) : log[k].op = "request"}

\* The positions of the log with the delay.
Sleeps == {k \in 1..Len(log) : log[k].op = "sleep"}

\* C17: in a run, the delay is what follows a network request whose
\* response was a success, before anything else is called (a request that
\* is the last entry of the log is waiting for its delay, or its response
\* was no success, or the process was killed); the delay is executed only
\* directly after a network request, so never by a get_page call that
\* found the cache file; and between two consecutive network requests of
\* the run the delay is executed exactly once.
C17_OneDelayAfterEachRequest ==
    /\ \A k \in Requests :
         IF k < Len(log) THEN log[k + 1].op = "sleep"
         ELSE \/ gp = "sleep"
              \/ pc = "aborted" /\ failed # NoFail /\ failed.file = log[k].name
              \/ pc = "crashed"
    /\ \A k \in Sleeps : k > 1 /\ log[k - 1].op = "request"
    /\ \A k, l \in Requests :
         (k < l /\ \A j \in Requests : ~(k < j /\ j < l))
            => Cardinality({j \in Sleeps : k < j /\ j < l}) = 1

\* A run has ended that made two network requests or more, and between
\* two of them get_page found a cache file and returned with no delay.
C17_Witness ==
    /\ pc = "done"
    /\ \E k, l \in Requests :
         /\ k < l
         /\ \E h \in 1..Len(log) :
              /\ k < h /\ h < l
              /\ log[h].op = "get_page" /\ log[h + 1].op # "request"

\* The pages of days in the order of the loops of main and
\* get_df_block_dates: for each month of the plan, for each row of the
\* master table, for each date of the month.
Planned ==
    Flatten([m \in 1..Len(dic_dates) |->
        Flatten([r \in 1..Len(df_m) |->
            [d \in 1..Len(dic_dates[m].dates) |->
                [prec_no |-> df_m[r].prec_no, block_no |-> df_m[r].block_no,
                 date |-> dic_dates[m].dates[d]]]])])

\* The pages of days got so far in the run, in the order of the rows of dfs.
Fetched ==
    [k \in 1..Len(dfs) |->
        [prec_no |-> dfs[k].prec_no, block_no |-> dfs[k].block_no,
         date |-> dfs[k].date]]

\* The dates of the command lines, each with its day number and month
\* number in the calendar.
RunDates == {"2025-09-30", "2025-10-01", "2025-10-02"}

day_number == [d \in RunDates |-> ymd2ord(strptime(d))]

month_number == [d \in RunDates |-> strptime(d)[1] * 12 + strptime(d)[2]]

\* C12: the pages of days are got month by month in calendar order, within
\* a month station by station in the order of the master table, within a
\* station date by date in calendar order; the rows of dfs, which become
\* the output, are in that order, and a run that ends has got them all.
C12_FetchOrder ==
    /\ Len(dfs) <= Len(Planned)
    /\ Fetched = SubSeq(Planned, 1, Len(dfs))
    /\ pc = "done" => Fetched = Planned
    /\ \A k, l \in 1..Len(dfs) :
         k < l =>
            /\ month_number[dfs[k].date] <= month_number[dfs[l].date]
            /\ (/\ month_number[dfs[k].date] = month_number[dfs[l].date]
                /\ dfs[k].block_no = dfs[l].block_no
                /\ dfs[k].prec_no = dfs[l].prec_no)
               => day_number[dfs[k].date] < day_number[dfs[l].date]

\* A run over two months and two stations has ended with its four pages.
C12_Witness ==
    /\ pc = "done" /\ Len(dic_dates) = 2 /\ Len(df_m) = 2 /\ Len(dfs) = 4

-----------------------------------------------------------------------------
(* Properties of compress followed by extract *)

\* C3: compress for a batch followed by extract for the batch leaves the
\* cache directory as it was before, every file with the content it had,
\* and the files extract has written are exactly the files compress has put
\* into the archive.
C3_RoundTrip ==
    pc = "rt_done" =>
        /\ ar.files = rt.compressed
        /\ DOMAIN tar_gz[ar.file].members = rt.compressed
        /\ cache = rt.before

\* The round trip has ended for a batch of two files or more that
\* compress had unlinked, with files of no batch or another beside them.
C3_Witness ==
    /\ pc = "rt_done" /\ rt.remove_cache
    /\ Cardinality(rt.compressed) >= 2
    /\ DOMAIN rt.before # rt.compressed

-----------------------------------------------------------------------------
(* Properties of validate_column *)

\* The stations with a row of the window whose value is not numeric.
StationsWithMissing ==
    {<<r.prec_no, r.block_no>> : r \in {x \in weather : ~valid(x)}}

ColumnOf(row) == dict_valiable_name_en[column] \o "_" \o merged_name_en(row)

\* C11 as it was claimed: with output_valid, the exported table has a
\* column for a station exactly when no value of the station in the window
\* is missing.
C11_Claimed ==
    (vpc = "done" /\ output_valid) =>
        out_csv.columns =
            {ColumnOf(r) : r \in {x \in weather :
                                    <<x.prec_no, x.block_no>> \notin StationsWithMissing}}

\* The export was written, and a station with a missing value has a column
\* in it, holding nan where the value is missing.
C11_Witness ==
    /\ vpc = "done" /\ output_valid
    /\ \E r \in weather :
         /\ ~valid(r)
         /\ <<ColumnOf(r), <<r.date, int(r.hour)>>, "nan">> \in out_csv.cells

-----------------------------------------------------------------------------
(* Properties of the cache file names *)

\* The batch a page is got in by main: the region and station lists
\* between extract_precs and compress_precs, a page of a day in the month
\* of the day.
BatchOf(t) ==
    IF t.kind = "block_date" THEN year_month_of(strftime(t.date)) ELSE "prefectures"

\* C18: two different pages (the region list, the station list of a
\* region, the page of a station and day) have different cache file names,
\* and the cache file name of a page is selected by exactly one batch:
\* that of compress_precs for the region list and the station lists, and
\* for the page of a station and day that of compress_month for the
\* YYYY-MM of the day and no other.
C18_NamesDistinctAndInOneBatch ==
    /\ npc \in {"named", "selected"} =>
          (targets[1] # targets[2] => filenames[1] # filenames[2])
    /\ npc = "selected" =>
          \A k \in 1..2 : selected[k] = {BatchOf(targets[k])}

\* The names and batches are made for the pages of one day of two
\* stations whose region and station numbers joined give the same digits.
C18_Witness ==
    /\ npc = "selected"
    /\ targets[1] = block_date_target(1, 11, <<2025, 10, 11>>)
    /\ targets[2] = block_date_target(11, 1, <<2025, 10, 11>>)
    /\ selected[1] = {"2025-10"}

-----------------------------------------------------------------------------
(* Properties of extract on its own *)

\* The cache directory with every member of the archive written over it.
Extracted(dir, members) ==
    [f \in DOMAIN dir \cup DOMAIN members |->
        IF f \in DOMAIN members THEN members[f] ELSE dir[f]]

\* C19: extract never changes an archive; extract for a batch whose
\* archive does not exist changes no file of the cache directory; and
\* extract for a batch whose archive exists, once it has returned, has
\* left the cache directory with the members of the archive written over
\* it, which a second extract for the batch, at each of its steps and
\* when it has returned, leaves as it is.
C19_ExtractTwiceIsExtractOnce ==
    pc \in {"x_first", "x_once", "x_second", "x_twice", "x_raised"} =>
        /\ tar_gz = rt.archives
        /\ batch_tar_gz(rt.batch) \notin DOMAIN rt.archives => cache = rt.before
        /\ (pc \in {"x_once", "x_second", "x_twice"}
                /\ batch_tar_gz(rt.batch) \in DOMAIN rt.archives)
              => /\ rt.once = Extracted(rt.before, tar_gz[batch_tar_gz(rt.batch)].members)
                 /\ cache = rt.once

\* extract has returned a second time for an archive of two members, of
\* which the first call has changed one in the cache directory and
\* created the other.
C19_Witness ==
    /\ pc = "x_twice"
    /\ batch_tar_gz(rt.batch) \in DOMAIN tar_gz
    /\ Cardinality(DOMAIN tar_gz[batch_tar_gz(rt.batch)].members) = 2
    /\ \E f \in DOMAIN rt.before : rt.before[f] # cache[f]
    /\ DOMAIN rt.before # DOMAIN cache

=============================================================================
